---------------------------- MODULE Spec2Model ----------------------------
(***************************************************************************)
(* Model of the HFE heat-exchanger firmware (src/unnamed/part_000, the     *)
(* ten-channel variant with pump/VFD; src/firmware/src/main.cpp is the     *)
(* same loop without the pump).                                            *)
(*                                                                         *)
(* Numbers.  A C float is a record [cls, v]: cls = "num" with v an integer *)
(* on a fixed grid, cls = "nan", or cls = "inf" with v = 1 / -1.           *)
(* Temperatures are in tenths of a degree Celsius, pump percent in         *)
(* thousandths of a percent, frequencies in thousandths of a hertz, time   *)
(* in milliseconds.  Strings are sequences of one-character strings.       *)
(***************************************************************************)
EXTENDS Integers, Sequences, FiniteSets, TLC

VARIABLES
  g_valve,         \* ValveState g_valve
  g_mode,          \* OverrideMode g_mode
  valvePin,        \* level last written to VALVE_PIN
  g_pump_cmd_pct,  \* float g_pump_cmd_pct, thousandths of a percent
  OCR4A,           \* timer 4 compare register
  line,            \* static String line of loop()
  rx,              \* bytes waiting in the Serial receive buffer
  pc,              \* position inside loop(): "serial", "poll", "vfd_flush",
                   \* "vfd_send", "vfd_wait", "sample"
  clk,             \* millis()
  now,             \* local `now` of the current loop() iteration
  lastSample,      \* unsigned long lastSample
  lastVfdPoll,     \* unsigned long lastVfdPoll
  g_vfd,           \* VfdSnapshot g_vfd
  temps_out,       \* temps_out[] of the last sampling tick
  sensors,         \* what the MAX31856 chips returned on the last sampling tick
  tx,              \* lines written to Serial by the last step
  ev,              \* history: the last step taken and the state it started in
  rawCount,        \* history: bytes received since the last line-end
  timer4,          \* timer 4 mode and period registers TCCR4A, TCCR4B, ICR4
  vfdRx,           \* bytes waiting in the Serial3 (VFD) receive buffer
  vfdTx,           \* bytes written to Serial3 by the last step
  bus,             \* history: the field-bus transaction of the last poll
  wait,            \* the reply loop of vfdReadM09toM12 while it runs: start, buf
  lastValveChange, \* unsigned long lastValveChange (src/src/main.cpp)
  web              \* the web client (src/clients/web/app.js) and what it talks to

vars == <<g_valve, g_mode, valvePin, g_pump_cmd_pct, OCR4A, line, rx, pc, clk,
          now, lastSample, lastVfdPoll, g_vfd, temps_out, sensors, tx, ev,
          rawCount, timer4, vfdRx, vfdTx, bus, wait, lastValveChange, web>>

----------------------------------------------------------------------------
(* Bounds of the model *)

NumTcs == 3          \* channels wired (NUM_TCS is 10 in part_000)
MaxClock == 3000     \* the clock stops advancing here

(* Program constants *)

SETPOINT == 250                \* 25.0 C
HYSTERESIS == 5                \* 0.5 C
TEMP_MIN == -2000              \* -200.0 C
TEMP_MAX == 13700              \* 1370.0 C
LINE_CAP == 64
SAMPLE_INTERVAL_MS == 1000
VFD_POLL_MS == 1000
VFD_TIMEOUT_MS == 200
REQUEST_MS == 9                \* 8 bytes of 11 bits at VFD_BAUD = 9600
REPLY_MS == 15                 \* 13 bytes of 11 bits at VFD_BAUD = 9600
PWM_TOP == 999
PUMP_CMD_MAX_PCT == 100000     \* 100.0 %
PUMP_MAX_FREQ_HZ == 717        \* 71.7 Hz, in tenths of a hertz
WORD == 65536                  \* an unsigned long is two 16-bit halves [hi, lo]

CLOSED == "CLOSED"
OPEN == "OPEN"
AUTO == "AUTO"
FORCE_OPEN == "FORCE_OPEN"
FORCE_CLOSE == "FORCE_CLOSE"
LOW == "LOW"
HIGH == "HIGH"

----------------------------------------------------------------------------
(* Floats *)

Num(v) == [cls |-> "num", v |-> v]
NAN == [cls |-> "nan", v |-> 0]
INF(s) == [cls |-> "inf", v |-> s]

isfinite(x) == x.cls = "num"

\* a < b on floats: false when either is NaN
FLess(a, b) ==
  /\ a.cls # "nan"
  /\ b.cls # "nan"
  /\ IF a.cls = "inf" THEN a.v < 0 /\ ~(b.cls = "inf" /\ b.v < 0)
     ELSE IF b.cls = "inf" THEN b.v > 0
     ELSE a.v < b.v

\* round-to-nearest quotient n / d for d > 0 (ties away from zero)
RoundDiv(n, d) ==
  IF n >= 0 THEN (2 * n + d) \div (2 * d) ELSE -((2 * (-n) + d) \div (2 * d))

----------------------------------------------------------------------------
(* Strings *)

Lower == <<"a","b","c","d","e","f","g","h","i","j","k","l","m",
           "n","o","p","q","r","s","t","u","v","w","x","y","z">>
Upper == <<"A","B","C","D","E","F","G","H","I","J","K","L","M",
           "N","O","P","Q","R","S","T","U","V","W","X","Y","Z">>
Digits == <<"0","1","2","3","4","5","6","7","8","9">>

isspace(c) == c \in {" ", "\t", "\n", "\r"}
isdigit(c) == \E i \in 1..10 : Digits[i] = c

toUpperChar(c) ==
  IF \E i \in 1..26 : Lower[i] = c
  THEN Upper[CHOOSE i \in 1..26 : Lower[i] = c]
  ELSE c

toUpperCase(s) == [i \in 1..Len(s) |-> toUpperChar(s[i])]

\* String::trim(): without the white space at both ends
trim(s) ==
  LET first == CHOOSE i \in 1..(Len(s) + 1) :
                 /\ \A j \in 1..(i - 1) : isspace(s[j])
                 /\ i > Len(s) \/ ~isspace(s[i])
      last == CHOOSE i \in 0..Len(s) :
                /\ \A j \in (i + 1)..Len(s) : isspace(s[j])
                /\ i = 0 \/ ~isspace(s[i])
  IN  IF first > last THEN <<>> ELSE SubSeq(s, first, last)

startsWith(s, p) == Len(s) >= Len(p) /\ SubSeq(s, 1, Len(p)) = p
endsWith(s, p) ==
  Len(s) >= Len(p) /\ SubSeq(s, Len(s) - Len(p) + 1, Len(s)) = p
substring(s, from) == IF from >= Len(s) THEN <<>> ELSE SubSeq(s, from + 1, Len(s))

S_VALVE_OPEN == <<"V","A","L","V","E"," ","O","P","E","N">>
S_VALVE_CLOSE == <<"V","A","L","V","E"," ","C","L","O","S","E">>
S_VALVE_AUTO == <<"V","A","L","V","E"," ","A","U","T","O">>
S_PUMP == <<"P","U","M","P">>
S_HZ == <<"H","Z">>
S_PCT == <<"%">>


\* number of white-space characters of s from index i on
spaceRun(s, i) ==
  CHOOSE k \in 0..(Len(s) + 1 - i) :
    /\ \A j \in i..(i + k - 1) : isspace(s[j])
    /\ i + k > Len(s) \/ ~isspace(s[i + k])

\* number of decimal digits of s from index i on
digitRun(s, i) ==
  CHOOSE k \in 0..(Len(s) + 1 - i) :
    /\ \A j \in i..(i + k - 1) : isdigit(s[j])
    /\ i + k > Len(s) \/ ~isdigit(s[i + k])

digitVal(c) == (CHOOSE i \in 1..10 : Digits[i] = c) - 1

RECURSIVE DecVal(_, _, _)
\* value of the n decimal digits of s from index i on
DecVal(s, i, n) ==
  IF n = 0 THEN 0 ELSE 10 * DecVal(s, i, n - 1) + digitVal(s[i + n - 1])

RECURSIVE Pow10(_)
Pow10(n) == IF n = 0 THEN 1 ELSE 10 * Pow10(n - 1)

charAt(s, i) == IF i >= 1 /\ i <= Len(s) THEN s[i] ELSE ""

\* s reads w (upper case) from index i on, in any letter case
wordAt(s, i, w) ==
  /\ i + Len(w) - 1 <= Len(s)
  /\ \A j \in 1..Len(w) : toUpperChar(s[i + j - 1]) = w[j]

\* m * 10^p in thousandths, to the nearest
scaled(sgn, m, p) ==
  IF p >= 0 THEN Num(sgn * m * Pow10(p)) ELSE Num(sgn * RoundDiv(m, Pow10(-p)))

\* the exponent part from index i on: 0 unless it is e, an optional sign
\* and at least one digit
exponentAt(s, i) ==
  IF charAt(s, i) \notin {"e", "E"} THEN 0
  ELSE IF charAt(s, i + 1) = "-"
       THEN -DecVal(s, i + 2, digitRun(s, i + 2))
  ELSE IF charAt(s, i + 1) = "+"
       THEN DecVal(s, i + 2, digitRun(s, i + 2))
  ELSE DecVal(s, i + 1, digitRun(s, i + 1))

\* a decimal number from index i on: ni integer digits, then nf fraction
\* digits behind a point
decimalAt(s, i, sgn, ni, nf) ==
  IF ni + nf = 0 THEN Num(0)
  ELSE scaled(sgn,
              DecVal(s, i, ni) * Pow10(nf) + DecVal(s, i + ni + 1, nf),
              3 - nf + exponentAt(s, i + ni + (IF charAt(s, i + ni) = "." THEN nf + 1 ELSE 0)))

\* the number from index i on, behind its sign
unsignedAt(s, i, sgn) ==
  IF wordAt(s, i, <<"I","N","F">>) THEN INF(sgn)
  ELSE IF wordAt(s, i, <<"N","A","N">>) THEN NAN
  ELSE decimalAt(s, i, sgn, digitRun(s, i),
                 IF charAt(s, i + digitRun(s, i)) = "."
                 THEN digitRun(s, i + digitRun(s, i) + 1) ELSE 0)

\* the number from index i on
signedAt(s, i) ==
  unsignedAt(s, IF charAt(s, i) \in {"+", "-"} THEN i + 1 ELSE i,
             IF charAt(s, i) = "-" THEN -1 ELSE 1)

\* String::toFloat() is atof(): leading white space, an optional sign, then
\* INF / NAN, or digits with an optional fraction and exponent; text after
\* the number is ignored and "no number" converts to 0.  The result is in
\* thousandths.
toFloat(s) == signedAt(s, 1 + spaceRun(s, 1))

----------------------------------------------------------------------------
(* Valve and pump outputs *)

\* mutant of applyValve: the output is active low
M_applyValve_ActiveLow(v) == [valve |-> v, pin |-> IF v = OPEN THEN LOW ELSE HIGH]

applyValve(v) == [valve |-> v, pin |-> IF v = OPEN THEN HIGH ELSE LOW]

\* setupPwm2kHz(): the registers it leaves; a mode register is the set of
\* the bits set in it
setupPwm2kHz ==
  [TCCR4A |-> {"COM4A1", "WGM41"}, TCCR4B |-> {"WGM43", "WGM42", "CS41"},
   ICR4 |-> PWM_TOP, OCR4A |-> 0]

\* the mode and period registers
timerRegs(r) == [TCCR4A |-> r.TCCR4A, TCCR4B |-> r.TCCR4B, ICR4 |-> r.ICR4]

\* mutant of setDuty: the product is truncated, not rounded
M_setDuty_Truncates(frac) ==
  LET f0 == IF ~isfinite(frac) THEN Num(0) ELSE frac
      f1 == IF f0.v < 0 THEN Num(0) ELSE f0
      f2 == IF f1.v > 100000 THEN Num(100000) ELSE f1
  IN  ((f2.v * PWM_TOP) \div 100000) % 65536

\* setDuty(frac): frac is a float in units of 1e-5; the value left in OCR4A
setDuty(frac) ==
  LET f0 == IF ~isfinite(frac) THEN Num(0) ELSE frac
      f1 == IF f0.v < 0 THEN Num(0) ELSE f0
      f2 == IF f1.v > 100000 THEN Num(100000) ELSE f1
  IN  ((f2.v * PWM_TOP + 50000) \div 100000) % 65536

\* mutant of setPumpCommandPct: no lower clamp on the stored percent
M_setPumpCommandPct_NoLowerClamp(pct) ==
  LET p0 == IF ~isfinite(pct) THEN Num(0) ELSE pct
      p2 == IF p0.v > PUMP_CMD_MAX_PCT THEN Num(PUMP_CMD_MAX_PCT) ELSE p0
  IN  [pct |-> p2.v, ocr |-> setDuty(Num(p2.v))]

\* mutant of setPumpCommandPct: no upper clamp on the stored percent
M_setPumpCommandPct_NoUpperClamp(pct) ==
  LET p0 == IF ~isfinite(pct) THEN Num(0) ELSE pct
      p1 == IF p0.v < 0 THEN Num(0) ELSE p0
  IN  [pct |-> p1.v, ocr |-> setDuty(Num(p1.v))]

\* mutant of setPumpCommandPct: the percent is stored, the compare register
\* is cleared instead of following it
M_setPumpCommandPct_NoDuty(pct) ==
  LET p0 == IF ~isfinite(pct) THEN Num(0) ELSE pct
      p1 == IF p0.v < 0 THEN Num(0) ELSE p0
      p2 == IF p1.v > PUMP_CMD_MAX_PCT THEN Num(PUMP_CMD_MAX_PCT) ELSE p1
  IN  [pct |-> p2.v, ocr |-> 0]

\* setPumpCommandPct(pct): the new g_pump_cmd_pct and OCR4A
setPumpCommandPct(pct) ==
  LET p0 == IF ~isfinite(pct) THEN Num(0) ELSE pct
      p1 == IF p0.v < 0 THEN Num(0) ELSE p0
      p2 == IF p1.v > PUMP_CMD_MAX_PCT THEN Num(PUMP_CMD_MAX_PCT) ELSE p1
  IN  [pct |-> p2.v, ocr |-> setDuty(Num(p2.v))]

----------------------------------------------------------------------------
(* Sensors and control *)

\* mutant of safeReadCelsius: the limits of the range count as out of range
M_safeReadCelsius_Strict(r) ==
  IF r.f # 0 THEN NAN
  ELSE IF ~isfinite(r.t) \/ ~FLess(Num(TEMP_MIN), r.t) \/ ~FLess(r.t, Num(TEMP_MAX))
       THEN NAN
  ELSE r.t

\* a MAX31856 read: t is readThermocoupleTemperature(), f is readFault().
\* Every tc[i] is non-null after setup().
safeReadCelsius(r) ==
  IF r.f # 0 THEN NAN
  ELSE IF ~isfinite(r.t) \/ FLess(r.t, Num(TEMP_MIN)) \/ FLess(Num(TEMP_MAX), r.t)
       THEN NAN
  ELSE r.t

RECURSIVE SumFinite(_, _)
\* the loop `if (isfinite(temps_out[i])) { sum += temps_out[i]; ++k; }` over
\* channels 1..n: the pair (sum, k)
SumFinite(temps, n) ==
  IF n = 0 THEN [sum |-> 0, k |-> 0]
  ELSE LET r == SumFinite(temps, n - 1)
       IN  IF isfinite(temps[n])
           THEN [sum |-> r.sum + temps[n].v, k |-> r.k + 1]
           ELSE r

\* a temperature of the sensor grid on the grid of t_ctrl, which is a
\* hundred times finer (a float resolves far below the sensor's step)
CtrlGrid(x) == 100 * x

\* t_ctrl = (float)(sum / k), rounded to the nearest value of its grid
tCtrl(sum, k) == RoundDiv(CtrlGrid(sum), k)

\* mutant of autoRule: the comparisons without the hysteresis
M_autoRule_NoHysteresis(valve, t_ctrl) ==
  IF valve = CLOSED /\ t_ctrl > CtrlGrid(SETPOINT)
  THEN [apply |-> TRUE, v |-> OPEN]
  ELSE IF valve = OPEN /\ t_ctrl < CtrlGrid(SETPOINT)
  THEN [apply |-> TRUE, v |-> CLOSED]
  ELSE [apply |-> FALSE, v |-> valve]

\* mutant of autoRule: the thresholds themselves trigger
M_autoRule_Inclusive(valve, t_ctrl) ==
  IF valve = CLOSED /\ t_ctrl >= CtrlGrid(SETPOINT + HYSTERESIS)
  THEN [apply |-> TRUE, v |-> OPEN]
  ELSE IF valve = OPEN /\ t_ctrl <= CtrlGrid(SETPOINT - HYSTERESIS)
  THEN [apply |-> TRUE, v |-> CLOSED]
  ELSE [apply |-> FALSE, v |-> valve]

\* the AUTO branch with k > 0: which applyValve() call is made, if any
autoRule(valve, t_ctrl) ==
  IF valve = CLOSED /\ t_ctrl > CtrlGrid(SETPOINT + HYSTERESIS)
  THEN [apply |-> TRUE, v |-> OPEN]
  ELSE IF valve = OPEN /\ t_ctrl < CtrlGrid(SETPOINT - HYSTERESIS)
  THEN [apply |-> TRUE, v |-> CLOSED]
  ELSE [apply |-> FALSE, v |-> valve]

\* mutant of controlUpdate: no fail-safe branch
M_controlUpdate_NoFailSafe(mode, valve, temps) ==
  LET a == SumFinite(temps, NumTcs)
  IN  IF mode = AUTO
      THEN IF a.k > 0 THEN autoRule(valve, tCtrl(a.sum, a.k))
           ELSE [apply |-> FALSE, v |-> valve]
      ELSE IF mode = FORCE_OPEN THEN [apply |-> TRUE, v |-> OPEN]
      ELSE IF mode = FORCE_CLOSE THEN [apply |-> TRUE, v |-> CLOSED]
      ELSE [apply |-> FALSE, v |-> valve]

\* mutant of controlUpdate: the fail-safe tested before the mode
M_controlUpdate_FailSafeFirst(mode, valve, temps) ==
  LET a == SumFinite(temps, NumTcs)
  IN  IF a.k = 0 THEN [apply |-> TRUE, v |-> CLOSED]
      ELSE IF mode = AUTO THEN autoRule(valve, tCtrl(a.sum, a.k))
      ELSE IF mode = FORCE_OPEN THEN [apply |-> TRUE, v |-> OPEN]
      ELSE IF mode = FORCE_CLOSE THEN [apply |-> TRUE, v |-> CLOSED]
      ELSE [apply |-> FALSE, v |-> valve]

\* the control block of a sampling tick: which applyValve() call is made
controlUpdate(mode, valve, temps) ==
  LET a == SumFinite(temps, NumTcs)
  IN  IF mode = AUTO
      THEN IF a.k > 0 THEN autoRule(valve, tCtrl(a.sum, a.k))
           ELSE [apply |-> TRUE, v |-> CLOSED]
      ELSE IF mode = FORCE_OPEN THEN [apply |-> TRUE, v |-> OPEN]
      ELSE IF mode = FORCE_CLOSE THEN [apply |-> TRUE, v |-> CLOSED]
      ELSE [apply |-> FALSE, v |-> valve]

----------------------------------------------------------------------------
(* Commands *)

\* what a command that does nothing leaves: the state, and no output
keepState ==
  [mode |-> g_mode, valve |-> g_valve, pin |-> valvePin,
   pct |-> g_pump_cmd_pct, ocr |-> OCR4A, out |-> <<>>, timer |-> timer4]

\* mutant of valveForce: the command is acknowledged on Serial
M_valveForce_Ack(mode, v) ==
  [keepState EXCEPT !.mode = mode, !.valve = applyValve(v).valve,
                    !.pin = applyValve(v).pin,
                    !.out = <<[type |-> "comment", text |-> "# Valve set",
                               applied |-> 0]>>]

\* mutant of valveForce: the mode is set and the valve is left to the
\* next tick
M_valveForce_ModeOnly(mode, v) == [keepState EXCEPT !.mode = mode]

\* mutant of valveForce: the mode is set and the valve driven the other way
M_valveForce_Inverted(mode, v) ==
  [keepState EXCEPT !.mode = mode,
                    !.valve = applyValve(IF v = OPEN THEN CLOSED ELSE OPEN).valve,
                    !.pin = applyValve(IF v = OPEN THEN CLOSED ELSE OPEN).pin]

\* VALVE OPEN / VALVE CLOSE: { g_mode = mode; applyValve(v); }
valveForce(mode, v) ==
  [keepState EXCEPT !.mode = mode, !.valve = applyValve(v).valve,
                    !.pin = applyValve(v).pin]

\* mutant of valveAuto: the valve is closed on the way into AUTO
M_valveAuto_Closes ==
  [keepState EXCEPT !.mode = AUTO, !.valve = applyValve(CLOSED).valve,
                    !.pin = applyValve(CLOSED).pin]

\* VALVE AUTO: { g_mode = AUTO; }
valveAuto == [keepState EXCEPT !.mode = AUTO]

\* the percent a PUMP line asks for; rest is the text behind PUMP, trimmed
pumpPercent(rest) ==
  IF startsWith(toUpperCase(rest), S_HZ)
  THEN IF isfinite(toFloat(trim(substring(rest, 2)))) /\ PUMP_MAX_FREQ_HZ > 0
       THEN Num(RoundDiv(toFloat(trim(substring(rest, 2))).v * 1000,
                         PUMP_MAX_FREQ_HZ))
       ELSE NAN
  ELSE toFloat(IF endsWith(rest, S_PCT) THEN SubSeq(rest, 1, Len(rest) - 1)
               ELSE rest)

\* mutant of pumpCommand: the duty goes to the period register as well
M_pumpCommand_WritesPeriod(pct) ==
  IF isfinite(pct)
  THEN [keepState EXCEPT !.pct = setPumpCommandPct(pct).pct,
                         !.ocr = setPumpCommandPct(pct).ocr,
                         !.timer = [@ EXCEPT !.ICR4 = setPumpCommandPct(pct).ocr],
                         !.out = <<[type |-> "comment",
                                    text |-> "# Pump cmd set to",
                                    applied |-> setPumpCommandPct(pct).pct]>>]
  ELSE keepState

\* mutant of pumpCommand: the acknowledgement is a telemetry frame
M_pumpCommand_EmitsFrame(pct) ==
  IF isfinite(pct)
  THEN [keepState EXCEPT !.pct = setPumpCommandPct(pct).pct,
                         !.ocr = setPumpCommandPct(pct).ocr,
                         !.out = <<[type |-> "telemetry",
                                    text |-> "# Pump cmd set to",
                                    applied |-> setPumpCommandPct(pct).pct]>>]
  ELSE keepState

\* the PUMP branch, given the percent
pumpCommand(pct) ==
  IF isfinite(pct)
  THEN [keepState EXCEPT !.pct = setPumpCommandPct(pct).pct,
                         !.ocr = setPumpCommandPct(pct).ocr,
                         !.out = <<[type |-> "comment",
                                    text |-> "# Pump cmd set to",
                                    applied |-> setPumpCommandPct(pct).pct]>>]
  ELSE keepState

\* the if / else-if chain of handleCommand on cmd and its upper-case copy
dispatch(cmd, upper) ==
  IF upper = S_VALVE_OPEN THEN valveForce(FORCE_OPEN, OPEN)
  ELSE IF upper = S_VALVE_CLOSE THEN valveForce(FORCE_CLOSE, CLOSED)
  ELSE IF upper = S_VALVE_AUTO THEN valveAuto
  ELSE IF startsWith(upper, S_PUMP)
       THEN pumpCommand(pumpPercent(trim(substring(cmd, 4))))
  ELSE keepState

\* mutant of handleCommand: the commands are compared in the case received
M_handleCommand_CaseSensitive(s) ==
  IF Len(trim(s)) = 0 THEN keepState ELSE dispatch(trim(s), trim(s))

\* handleCommand(s): the state it leaves and the lines it prints
handleCommand(s) ==
  IF Len(trim(s)) = 0 THEN keepState
  ELSE dispatch(trim(s), toUpperCase(trim(s)))

----------------------------------------------------------------------------
(* unsigned long arithmetic, modulo 2^32, on records [hi, lo] *)

U32(n) == [hi |-> n \div WORD, lo |-> n % WORD]

\* a + d for 0 <= d < 2^16
Add32(a, d) ==
  [hi |-> (a.hi + (a.lo + d) \div WORD) % WORD, lo |-> (a.lo + d) % WORD]

\* a - b
Sub32(a, b) ==
  [hi |-> (a.hi - b.hi - (IF a.lo < b.lo THEN 1 ELSE 0)) % WORD,
   lo |-> (a.lo - b.lo) % WORD]

\* a >= c for 0 <= c < 2^16
Ge32(a, c) == a.hi > 0 \/ a.lo >= c

----------------------------------------------------------------------------
(* Field bus (Modbus RTU) *)

VFD_SLAVE_ADDR == 1
N_M_REG == 4
REG_M09 == 2057                \* 0x0809
EXPECTED_LEN == 3 + 2 * N_M_REG + 2

RECURSIVE BitXor(_, _)
BitXor(a, b) ==
  IF a = 0 THEN b
  ELSE IF b = 0 THEN a
  ELSE ((a + b) % 2) + 2 * BitXor(a \div 2, b \div 2)

\* one pass of the inner loop of modbusCRC
crcShift(crc) ==
  IF crc % 2 = 1 THEN BitXor(crc \div 2, 40961) ELSE crc \div 2

RECURSIVE CrcBits(_, _)
\* n passes of the inner loop (the test on c makes TLC compute it here)
CrcBits(crc, n) ==
  IF n = 0 THEN crc
  ELSE LET c == crcShift(crc) IN IF c >= 0 THEN CrcBits(c, n - 1) ELSE 0

RECURSIVE CrcBytes(_, _)
\* the outer loop over data[1..len]
CrcBytes(data, len) ==
  IF len = 0 THEN 65535
  ELSE LET c == CrcBytes(data, len - 1)
           x == BitXor(c, data[len])
       IN  IF c >= 0 /\ x >= 0 THEN CrcBits(x, 8) ELSE 0

modbusCRC(data, len) == CrcBytes(data, len)

\* mutant of crcOk: only the low CRC byte is compared
M_crcOk_LowByteOnly(buf, len) == buf[len - 1] = modbusCRC(buf, len - 2) % 256

\* the CRC test of the receive path on buf[1..len]: the last two bytes are
\* the CRC of the bytes before them, low byte first
crcOk(buf, len) == buf[len] * 256 + buf[len - 1] = modbusCRC(buf, len - 2)

\* mutant of requestFrame: the CRC bytes in the other order
M_requestFrame_CrcHighFirst ==
  LET head == <<VFD_SLAVE_ADDR, 3, REG_M09 \div 256, REG_M09 % 256, 0, N_M_REG>>
      crc == modbusCRC(head, 6)
  IN  head \o <<crc \div 256, crc % 256>>

\* the 8-byte request of vfdReadM09toM12
requestFrame ==
  LET head == <<VFD_SLAVE_ADDR, 3, REG_M09 \div 256, REG_M09 % 256, 0, N_M_REG>>
      crc == modbusCRC(head, 6)
  IN  head \o <<crc % 256, crc \div 256>>

\* mutant of flushStale: nothing is read away
M_flushStale_Keeps(pending) == pending

\* `while (VFD.available()) VFD.read();`: what is left of the pending bytes
flushStale(pending) == <<>>

\* the reply loop: buf takes the bytes that are there inside the 200 ms
\* window, up to EXPECTED_LEN of them
received(avail) ==
  SubSeq(avail, 1, IF Len(avail) < EXPECTED_LEN THEN Len(avail) ELSE EXPECTED_LEN)

\* mutant of vfdReadM09toM12: the byte-count field is not looked at
M_vfdReadM09toM12_NoByteCount(reply) ==
  LET len == IF Len(reply) < EXPECTED_LEN THEN Len(reply) ELSE EXPECTED_LEN
      buf == SubSeq(reply, 1, len)
      fail == [ok |-> FALSE, vals |-> <<0, 0, 0, 0>>]
  IN  IF len # EXPECTED_LEN THEN fail
      ELSE IF ~crcOk(buf, len) THEN fail
      ELSE IF buf[1] # VFD_SLAVE_ADDR \/ buf[2] # 3 THEN fail
      ELSE [ok |-> TRUE,
            vals |-> [i \in 1..N_M_REG |-> buf[2 + 2 * i] * 256 + buf[3 + 2 * i]]]

\* vfdReadM09toM12 on the bytes `reply` that are there inside the 200 ms window:
\* buf holds the first EXPECTED_LEN of them
vfdReadM09toM12(reply) ==
  LET len == IF Len(reply) < EXPECTED_LEN THEN Len(reply) ELSE EXPECTED_LEN
      buf == SubSeq(reply, 1, len)
      fail == [ok |-> FALSE, vals |-> <<0, 0, 0, 0>>]
  IN  IF len # EXPECTED_LEN THEN fail
      ELSE IF ~crcOk(buf, len) THEN fail
      ELSE IF buf[1] # VFD_SLAVE_ADDR \/ buf[2] # 3 THEN fail
      ELSE IF buf[3] # 2 * N_M_REG THEN fail
      ELSE [ok |-> TRUE,
            vals |-> [i \in 1..N_M_REG |-> buf[2 + 2 * i] * 256 + buf[3 + 2 * i]]]

\* the snapshot's numbers are kept in thousandths of their unit (Hz, %, V)
MILLI == 1000

\* vals[i] / 100.0f
perHundred(reg) == (reg * MILLI) \div 100

\* mutant of perTen: the voltage register is scaled like the others
M_perTen_AsPerHundred(reg) == (reg * MILLI) \div 100

\* vals[3] * 0.1f
perTen(reg) == (reg * MILLI) \div 10

\* mutant of pollVfd: a failed poll leaves the snapshot as it was
M_pollVfd_HoldsLastGood(reply, doneMs) ==
  LET r == vfdReadM09toM12(reply)
  IN  IF ~r.ok
      THEN [g_vfd EXCEPT !.lastPollMs = doneMs]
      ELSE [valid |-> TRUE, freqHz |-> Num(perHundred(r.vals[1])),
            inputPowerPct |-> Num(perHundred(r.vals[2])),
            outputCurrentPct |-> Num(perHundred(r.vals[3])),
            outputVoltageV |-> Num(perTen(r.vals[4])), lastPollMs |-> doneMs]

\* mutant of pollVfd: a failure clears the flag and leaves the numbers
M_pollVfd_KeepsValues(reply, doneMs) ==
  LET r == vfdReadM09toM12(reply)
  IN  IF ~r.ok
      THEN [g_vfd EXCEPT !.valid = FALSE, !.lastPollMs = doneMs]
      ELSE [valid |-> TRUE, freqHz |-> Num(perHundred(r.vals[1])),
            inputPowerPct |-> Num(perHundred(r.vals[2])),
            outputCurrentPct |-> Num(perHundred(r.vals[3])),
            outputVoltageV |-> Num(perTen(r.vals[4])), lastPollMs |-> doneMs]

\* pollVfd: the snapshot it leaves
pollVfd(reply, doneMs) ==
  LET r == vfdReadM09toM12(reply)
  IN  IF ~r.ok
      THEN [valid |-> FALSE, freqHz |-> NAN, inputPowerPct |-> NAN,
            outputCurrentPct |-> NAN, outputVoltageV |-> NAN,
            lastPollMs |-> doneMs]
      ELSE [valid |-> TRUE, freqHz |-> Num(perHundred(r.vals[1])),
            inputPowerPct |-> Num(perHundred(r.vals[2])),
            outputCurrentPct |-> Num(perHundred(r.vals[3])),
            outputVoltageV |-> Num(perTen(r.vals[4])), lastPollMs |-> doneMs]

\* milliseconds the transaction keeps the loop: VFD.flush() returns when
\* the request is out, then a whole reply ends the wait when its last byte
\* is in and anything less ends it at the timeout
pollDuration(reply) ==
  REQUEST_MS + (IF Len(reply) >= EXPECTED_LEN THEN REPLY_MS ELSE VFD_TIMEOUT_MS)

\* mutant of replyLoopRuns: the loop waits for the whole reply
M_replyLoopRuns_NoTimeout(elapsed, len) == len < EXPECTED_LEN

\* the condition of the reply loop,
\* `(millis() - start) < 200 && len < expectedLen`
replyLoopRuns(elapsed, len) ==
  ~Ge32(elapsed, VFD_TIMEOUT_MS) /\ len < EXPECTED_LEN

\* the milliseconds between two looks at millis() that differ: one near the
\* deadline, a long stretch far from it
tickStride(elapsed) ==
  IF elapsed.lo + (VFD_TIMEOUT_MS - 2) \div 2 < VFD_TIMEOUT_MS
  THEN (VFD_TIMEOUT_MS - 2) \div 2
  ELSE 1

\* (variant: a failed poll is fatal, the program stops there)
M_afterPoll_HaltsOnFailure(ok) == IF ok THEN "sample" ELSE "halt"

\* (variant: the iteration ends with the poll)
M_afterPoll_SkipsTick(ok) == "serial"

\* mutant of sampleDue: the times are compared, not their difference
M_sampleDue_Absolute(nowMs, last) ==
  LET due == Add32(last, SAMPLE_INTERVAL_MS)
  IN  nowMs.hi > due.hi \/ (nowMs.hi = due.hi /\ nowMs.lo >= due.lo)

\* `now - lastSample >= SAMPLE_INTERVAL_MS`, in unsigned long
sampleDue(nowMs, last) == Ge32(Sub32(nowMs, last), SAMPLE_INTERVAL_MS)

\* where loop() goes on after pollVfd(): its result is not looked at
afterPoll(ok) == "sample"

----------------------------------------------------------------------------
(* Telemetry *)

modeChar(mode) ==
  IF mode = AUTO THEN "A" ELSE IF mode = FORCE_OPEN THEN "O" ELSE "C"

\* mutant of vfdFields: printed whether or not the snapshot is valid
M_vfdFields_Unconditional ==
  <<g_vfd.freqHz.v, g_vfd.inputPowerPct.v,
    g_vfd.outputCurrentPct.v, g_vfd.outputVoltageV.v>>

\* the fields printed inside `if (g_vfd.valid)`
vfdFields ==
  IF g_vfd.valid
  THEN <<g_vfd.freqHz.v, g_vfd.inputPowerPct.v,
         g_vfd.outputCurrentPct.v, g_vfd.outputVoltageV.v>>
  ELSE <<>>

\* (variant: an entry that is not finite is printed as 0.00)
M_emitTelemetry_ZeroForInvalid(temps, count, nowMs) ==
  [type |-> "telemetry",
   t |-> nowMs,
   temps |-> [i \in 1..count |->
                [null |-> FALSE, v |-> IF isfinite(temps[i]) THEN temps[i].v ELSE 0]],
   valve |-> IF g_valve' = OPEN THEN 1 ELSE 0,
   mode |-> modeChar(g_mode),
   cmd_pct |-> g_pump_cmd_pct,
   poll_ms |-> g_vfd.lastPollMs,
   vfd |-> vfdFields]

\* (variant: the frame is printed before the control block has run)
M_emitTelemetry_BeforeControl(temps, count, nowMs) ==
  [type |-> "telemetry",
   t |-> nowMs,
   temps |-> [i \in 1..count |->
                IF isfinite(temps[i]) THEN [null |-> FALSE, v |-> temps[i].v]
                ELSE [null |-> TRUE, v |-> 0]],
   valve |-> IF g_valve = OPEN THEN 1 ELSE 0,
   mode |-> modeChar(g_mode),
   cmd_pct |-> g_pump_cmd_pct,
   poll_ms |-> g_vfd.lastPollMs,
   vfd |-> vfdFields]

\* the frame emitTelemetry prints; it reads the valve the control block left
emitTelemetry(temps, count, nowMs) ==
  [type |-> "telemetry",
   t |-> nowMs,
   temps |-> [i \in 1..count |->
                IF isfinite(temps[i]) THEN [null |-> FALSE, v |-> temps[i].v]
                ELSE [null |-> TRUE, v |-> 0]],
   valve |-> IF g_valve' = OPEN THEN 1 ELSE 0,
   mode |-> modeChar(g_mode),
   cmd_pct |-> g_pump_cmd_pct,
   poll_ms |-> g_vfd.lastPollMs,
   vfd |-> vfdFields]

----------------------------------------------------------------------------
(* Inputs *)

Pad(c, n) == [i \in 1..n |-> c]
EOL == <<"\n">>

\* lines a host sends, each with its line-end
LinesCtl ==
  { <<"V","A","L","V","E"," ","O","P","E","N","\n">>,
    <<"v","a","l","v","e"," ","c","l","o","s","e","\r","\n">>,
    <<"V","A","L","V","E"," ","A","U","T","O","\n">>,
    <<"P","U","M","P"," ","5","0","\n">> }

LinesCmd ==
  { <<"V","A","L","V","E"," ","O","P","E","N","\n">>,
    <<" "," ","v","a","l","v","e"," ","O","p","e","n"," ","\t","\r">>,
    <<"v","a","l","v","e"," ","c","l","o","s","e","\r","\n">>,
    <<"V","a","l","v","e"," ","A","u","t","o","\n">>,
    <<"V","A","L","V","E"," "," ","O","P","E","N","\n">>,
    <<"V","A","L","V","E","\n">>,
    <<"P","U","M","P"," ","5","0","\n">>,
    <<"p","u","m","p"," ","1","2",".","5","%","\n">>,
    <<"P","U","M","P"," ","H","Z"," ","3","5",".","8","5","\n">>,
    <<"p","u","m","p"," ","h","z"," ","8","0","\n">>,
    <<"P","U","M","P","\n">>,
    <<"P","U","M","P"," ","a","b","c","\n">>,
    <<"P","U","M","P","K","I","N","\n">>,
    <<"P","U","M","P"," ","N","A","N","\n">>,
    <<"P","U","M","P"," ","1","5","0","\n">>,
    <<"P","U","M","P"," ","-","5","\n">>,
    <<"H","E","L","L","O","\n">>,
    <<"\n">>,
    Pad("x", LINE_CAP + 1) \o S_VALVE_OPEN \o EOL,
    Pad(" ", LINE_CAP - Len(S_VALVE_OPEN)) \o S_VALVE_OPEN \o EOL,
    Pad(" ", LINE_CAP + 1 - Len(S_VALVE_OPEN)) \o S_VALVE_OPEN \o EOL }

Rd(t) == [t |-> Num(t), f |-> 0]
Faulted(t) == [t |-> Num(t), f |-> 1]

\* what one MAX31856 can return on a tick
ReadingsCtl == { Rd(243), Rd(245), Rd(255), Rd(259), Faulted(259) }
ReadingsRange ==
  { Rd(240), Rd(260), Rd(TEMP_MIN), Rd(TEMP_MIN - 1), Rd(TEMP_MAX),
    Rd(TEMP_MAX + 1), Faulted(260), [t |-> NAN, f |-> 0], [t |-> INF(1), f |-> 0] }
ReadingsCmd == { Rd(259), Faulted(243) }

\* a well-formed reply carrying four register values
goodReply(vals) ==
  LET body == <<VFD_SLAVE_ADDR, 3, 2 * N_M_REG>> \o
              <<vals[1] \div 256, vals[1] % 256, vals[2] \div 256, vals[2] % 256,
                vals[3] \div 256, vals[3] % 256, vals[4] \div 256, vals[4] % 256>>
      crc == modbusCRC(body, Len(body))
  IN  body \o <<crc % 256, crc \div 256>>

\* bytes the drive sends back inside the reply window
RepliesBasic == { goodReply(<<3585, 1200, 2500, 2300>>), <<>> }

\* a body with its CRC behind it, low byte first
withCrc(body) ==
  body \o <<modbusCRC(body, Len(body)) % 256, modbusCRC(body, Len(body)) \div 256>>

\* replies of every kind: whole, none, cut short, a damaged CRC byte, another
\* slave address, an exception function code, another byte-count field (each
\* of the last three under its right CRC), and a byte too many
RepliesBus ==
  { goodReply(<<3585, 1200, 2500, 2300>>),
    <<>>,
    SubSeq(goodReply(<<3585, 1200, 2500, 2300>>), 1, 5),
    [goodReply(<<3585, 1200, 2500, 2300>>) EXCEPT ![EXPECTED_LEN] = (@ + 1) % 256],
    withCrc(<<2, 3, 8, 14, 1, 4, 176, 9, 196, 8, 252>>),
    withCrc(<<VFD_SLAVE_ADDR, 131, 8, 14, 1, 4, 176, 9, 196, 8, 252>>),
    withCrc(<<VFD_SLAVE_ADDR, 3, 6, 14, 1, 4, 176, 9, 196, 8, 252>>),
    goodReply(<<3585, 1200, 2500, 2300>>) \o <<0>> }

\* bytes that come in outside a reply window: a late reply, a noise byte
Strays == { goodReply(<<100, 200, 300, 400>>), <<255>> }

\* one command line, ended by CR LF
LinesBus == { <<"P","U","M","P"," ","5","0","\r","\n">> }

----------------------------------------------------------------------------
(* State after setup() *)

Pre ==
  [mode |-> g_mode, valve |-> g_valve, pin |-> valvePin,
   pct |-> g_pump_cmd_pct, ocr |-> OCR4A]

\* the history record of a step: what it was, the line handleCommand got,
\* the state it started in, the bytes received since the last line-end
Ev(op, ln) ==
  [op |-> op, line |-> ln, pre |-> Pre, raw |-> rawCount, vfd |-> g_vfd,
   boot |-> ev.boot /\ op \notin {"cmd", "tick"}, sample |-> lastSample]

\* the transaction record before the first poll: `flushed` are the bytes the
\* flush removed, `pending` the bytes in the receive buffer when the request
\* went out, `late` those of them that came in behind the flush, `arrived`
\* the bytes that came in during the reply window, `buf` the reply buffer,
\* `sent` the number of requests written, `steps` the steps taken in order
NoBus ==
  [flushed |-> <<>>, pending |-> <<>>, late |-> <<>>, arrived |-> <<>>,
   buf |-> <<>>, sent |-> 0, steps |-> <<>>]

\* the snapshot as the initializer of g_vfd leaves it
BootSnapshot ==
  [valid |-> FALSE, freqHz |-> NAN, inputPowerPct |-> NAN,
   outputCurrentPct |-> NAN, outputVoltageV |-> NAN, lastPollMs |-> U32(0)]

\* outside the reply loop
NoWait == [on |-> FALSE, start |-> U32(0), buf |-> <<>>]

MAX_TCS_OUT == NumTcs

\* temps_out[] lives only inside a sampling tick, and `sensors` records what
\* the chips returned on it: outside a tick both hold these values
NoTemps == [i \in 1..MAX_TCS_OUT |-> NAN]
NoReadings == [i \in 1..NumTcs |-> [t |-> NAN, f |-> 0]]

----------------------------------------------------------------------------
(* The web client, src/clients/web/app.js *)

AUTO_COMMAND_COOLDOWN_MS == 1500
RECONNECT_FIRST_MS == 1000      \* reconnectDelay at load and after an open
RECONNECT_CAP_MS == 30000
WebEpoch == 5000                \* Date.now() when the page loads

\* let currentSetpoint = SETPOINT, in tenths of a degree
currentSetpoint == SETPOINT

\* the array a frame carries: one entry per channel, a number or null
NullTemp == [null |-> TRUE, v |-> 0]
NoAvg == [null |-> TRUE, sum |-> 0, n |-> 1]

\* let latestSnapshot = null (of the fields of a snapshot, valve and modeChar
\* are written and never read: they are left out)
NoSnapshot ==
  [null |-> TRUE, temps |-> [i \in 1..MAX_TCS_OUT |-> NullTemp],
   sensorCount |-> 0, avgSelected |-> NoAvg, selectedValid |-> 0]

\* the loop of updateSensorStats over sensors i..sensorCount: selectedValid
\* and selectedSum
RECURSIVE selectedStats(_, _, _, _)
selectedStats(temps, selections, i, sensorCount) ==
  IF i > sensorCount THEN [selectedValid |-> 0, selectedSum |-> 0]
  ELSE LET rest == selectedStats(temps, selections, i + 1, sensorCount)
           finite == ~temps[i].null
           selected == selections[i] # FALSE
       IN  IF finite /\ selected
           THEN [selectedValid |-> rest.selectedValid + 1,
                 selectedSum |-> rest.selectedSum + temps[i].v]
           ELSE rest

\* mutant of updateSensorStats: every valid sensor counts, selected or not
M_updateSensorStats_AllValid(snap, selections) ==
  IF snap.null THEN snap
  ELSE LET st == selectedStats(snap.temps, [i \in 1..snap.sensorCount |-> TRUE],
                               1, snap.sensorCount)
       IN  [snap EXCEPT
              !.avgSelected = IF st.selectedValid > 0
                              THEN [null |-> FALSE, sum |-> st.selectedSum,
                                    n |-> st.selectedValid]
                              ELSE NoAvg,
              !.selectedValid = st.selectedValid]

\* updateSensorStats(): latestSnapshot with avgSelected and selectedValid
\* filled in; the average selectedSum / selectedValid is kept as the exact
\* quotient of its two terms
updateSensorStats(snap, selections) ==
  IF snap.null THEN snap
  ELSE LET st == selectedStats(snap.temps, selections, 1, snap.sensorCount)
       IN  [snap EXCEPT
              !.avgSelected = IF st.selectedValid > 0
                              THEN [null |-> FALSE, sum |-> st.selectedSum,
                                    n |-> st.selectedValid]
                              ELSE NoAvg,
              !.selectedValid = st.selectedValid]

\* autoValveDesiredState: null, true or false
Desired(b) == IF b THEN "true" ELSE "false"

\* sendCommand(cmd): the command is posted to the server, which writes it to
\* the firmware's serial port
sendCommand(w, cmd, origin) ==
  [w EXCEPT !.out = Append(@, [cmd |-> cmd, by |-> origin]),
            !.toFw = Append(@, cmd)]

\* maybeRunAutoValve(valveOpen, modeChar)
maybeRunAutoValve(w, valveOpen, modeCh) ==
  IF ~(w.clientAutoActive \/ modeCh = "A")
  THEN [w EXCEPT !.autoValveDesiredState = "null"]
  ELSE
    LET w1 == [w EXCEPT !.clientAutoActive = TRUE]
        snap == w1.latestSnapshot
        shouldOpen == snap.avgSelected.sum > currentSetpoint * snap.avgSelected.n
    IN  IF snap.null \/ snap.avgSelected.null THEN w1
        ELSE IF snap.selectedValid <= 0
        THEN [w1 EXCEPT !.autoValveDesiredState = "null"]
        ELSE IF shouldOpen = valveOpen
        THEN [w1 EXCEPT !.autoValveDesiredState = Desired(shouldOpen)]
        ELSE IF /\ w1.autoValveDesiredState = Desired(shouldOpen)
                /\ w1.dateNow - w1.autoValveLastCommandTs < AUTO_COMMAND_COOLDOWN_MS
        THEN w1
        ELSE sendCommand([w1 EXCEPT !.autoValveDesiredState = Desired(shouldOpen),
                                    !.autoValveLastCommandTs = w1.dateNow],
                         IF shouldOpen THEN S_VALVE_OPEN ELSE S_VALVE_CLOSE,
                         "auto")

\* handleTelemetry(data) for a frame of the firmware: temps is an array of
\* MAX_TCS_OUT entries, valve is 0 or 1, mode is one of A, O, C
handleTelemetry(w, data) ==
  LET sensorCount == IF Len(data.temps) > MAX_TCS_OUT THEN MAX_TCS_OUT
                     ELSE Len(data.temps)
      valveOpen == data.valve # 0
      modeCh == data.mode
      w1 == IF modeCh = "A" THEN [w EXCEPT !.clientAutoActive = TRUE] ELSE w
      snap == [null |-> FALSE, temps |-> data.temps, sensorCount |-> sensorCount,
               avgSelected |-> NoAvg, selectedValid |-> 0]
      w2 == [w1 EXCEPT !.latestSnapshot = updateSensorStats(snap, w1.sensorSelections)]
  IN  maybeRunAutoValve(w2, valveOpen, modeCh)

\* the click handler of the command buttons
clickCommand(w, cmd) ==
  LET w1 == IF cmd = S_VALVE_AUTO
            THEN [w EXCEPT !.clientAutoActive = TRUE,
                           !.autoValveDesiredState = "null"]
            ELSE IF cmd \in {S_VALVE_OPEN, S_VALVE_CLOSE}
            THEN [w EXCEPT !.clientAutoActive = FALSE,
                           !.autoValveDesiredState = "null"]
            ELSE w
  IN  sendCommand(w1, cmd, "user")

\* mutant of scheduleReconnect: the delay doubles without a cap
M_scheduleReconnect_NoCap(w) ==
  [w EXCEPT !.ws = "null",
            !.timers = Append(@, w.reconnectDelay),
            !.reconnectDelay = w.reconnectDelay * 2]

\* scheduleReconnect(): ws = null, a timer of the current delay, the delay
\* doubled up to the cap
scheduleReconnect(w) ==
  [w EXCEPT !.ws = "null",
            !.timers = Append(@, w.reconnectDelay),
            !.reconnectDelay = IF w.reconnectDelay * 2 < RECONNECT_CAP_MS
                               THEN w.reconnectDelay * 2 ELSE RECONNECT_CAP_MS]

\* the page before connectWebSocket() has run, and a firmware after setup()
WebIdle ==
  [clientAutoActive |-> FALSE, autoValveDesiredState |-> "null",
   autoValveLastCommandTs |-> 0, dateNow |-> WebEpoch,
   sensorSelections |-> [i \in 1..MAX_TCS_OUT |-> TRUE],
   latestSnapshot |-> NoSnapshot,
   ws |-> "null", reconnectDelay |-> RECONNECT_FIRST_MS, timers |-> <<>>,
   reachable |-> FALSE, waited |-> 0,
   fw |-> [mode |-> AUTO, valve |-> CLOSED], toFw |-> <<>>, frames |-> <<>>,
   loaded |-> FALSE, op |-> "load", out |-> <<>>, manual |-> FALSE,
   scheduled |-> 0]

Init ==
  /\ g_valve = applyValve(CLOSED).valve
  /\ valvePin = applyValve(CLOSED).pin
  /\ g_mode = AUTO
  /\ g_pump_cmd_pct = setPumpCommandPct(Num(0)).pct
  /\ OCR4A = setPumpCommandPct(Num(0)).ocr
  /\ line = <<>>
  /\ rx = <<>>
  /\ pc = "serial"
  /\ clk = U32(0)
  /\ now = U32(0)
  /\ lastSample = U32(0)
  /\ lastVfdPoll = U32(0)
  /\ g_vfd = [valid |-> FALSE, freqHz |-> NAN, inputPowerPct |-> NAN,
              outputCurrentPct |-> NAN, outputVoltageV |-> NAN,
              lastPollMs |-> U32(0)]
  /\ temps_out = NoTemps
  /\ sensors = NoReadings
  /\ tx = <<[type |-> "comment", text |-> "# Telemetry keys", applied |-> 0]>>
  /\ rawCount = 0
  /\ timer4 = timerRegs(setupPwm2kHz)
  /\ vfdRx = <<>>
  /\ vfdTx = <<>>
  /\ bus = NoBus
  /\ wait = NoWait
  /\ lastValveChange = U32(0)
  /\ web = WebIdle
  /\ ev = [op |-> "setup", line |-> <<>>,
           pre |-> [mode |-> AUTO, valve |-> CLOSED, pin |-> LOW, pct |-> 0, ocr |-> 0],
           raw |-> 0, vfd |-> g_vfd, arg |-> Num(0), boot |-> TRUE,
           sample |-> U32(0)]

\* a step outside the field-bus transaction: nothing goes out on Serial3 and
\* the timer registers and the transaction record stay
BusIdle ==
  vfdTx' = <<>> /\ UNCHANGED <<timer4, vfdRx, bus, wait, lastValveChange, web>>

----------------------------------------------------------------------------
(* Steps *)

\* the host puts a line into the receive buffer (taken where loop() looks at
\* the buffer next: a byte that arrives elsewhere waits there unseen)
HostSend(L) ==
  /\ pc = "serial" /\ rx = <<>>
  /\ \E l \in L : rx' = l
  /\ tx' = <<>>
  /\ ev' = Ev("send", <<>>)
  /\ temps_out' = NoTemps /\ sensors' = NoReadings
  /\ BusIdle
  /\ UNCHANGED <<g_valve, g_mode, valvePin, g_pump_cmd_pct, OCR4A, line, pc, clk,
                 now, lastSample, lastVfdPoll, g_vfd, rawCount>>

\* millis() advances (taken before loop() reads it into `now`: no other
\* place but the poll reads the clock)
ClockAdvance ==
  /\ pc = "serial" /\ rx = <<>>
  /\ clk.hi = 0 /\ clk.lo + SAMPLE_INTERVAL_MS <= MaxClock
  /\ clk' = Add32(clk, SAMPLE_INTERVAL_MS)
  /\ tx' = <<>>
  /\ ev' = Ev("clock", <<>>)
  /\ temps_out' = NoTemps /\ sensors' = NoReadings
  /\ BusIdle
  /\ UNCHANGED <<g_valve, g_mode, valvePin, g_pump_cmd_pct, OCR4A, line, rx, pc,
                 now, lastSample, lastVfdPoll, g_vfd, rawCount>>

\* mutant of lineWith: the buffer is never cleared on overflow
M_lineWith_Unbounded(ln, c) == Append(ln, c)

\* loop(), the parser: `line += c; if (line.length() > 64) line = "";`
lineWith(ln, c) == IF Len(ln) + 1 > LINE_CAP THEN <<>> ELSE Append(ln, c)

\* loop(), the parser: a line-end byte with a non-empty line
ReadCommand ==
  /\ pc = "serial" /\ rx # <<>> /\ Head(rx) \in {"\n", "\r"} /\ Len(line) > 0
  /\ LET h == handleCommand(line)
     IN  /\ g_mode' = h.mode
         /\ g_valve' = h.valve
         /\ valvePin' = h.pin
         /\ g_pump_cmd_pct' = h.pct
         /\ OCR4A' = h.ocr
         /\ tx' = h.out
         /\ timer4' = h.timer
  /\ rx' = Tail(rx)
  /\ line' = <<>>
  /\ rawCount' = 0
  /\ ev' = Ev("cmd", line)
  /\ temps_out' = NoTemps /\ sensors' = NoReadings
  /\ vfdTx' = <<>> /\ UNCHANGED <<vfdRx, bus>>
  /\ UNCHANGED <<pc, clk, now, lastSample, lastVfdPoll, g_vfd>>
  /\ UNCHANGED <<wait, lastValveChange, web>>

\* loop(), the parser: a line-end byte with an empty line
ReadEmptyLine ==
  /\ pc = "serial" /\ rx # <<>> /\ Head(rx) \in {"\n", "\r"} /\ Len(line) = 0
  /\ rx' = Tail(rx)
  /\ line' = <<>>
  /\ rawCount' = 0
  /\ tx' = <<>>
  /\ ev' = Ev("eol", <<>>)
  /\ temps_out' = NoTemps /\ sensors' = NoReadings
  /\ BusIdle
  /\ UNCHANGED <<g_valve, g_mode, valvePin, g_pump_cmd_pct, OCR4A, pc, clk, now,
                 lastSample, lastVfdPoll, g_vfd>>

\* loop(), the parser: any other byte
ReadChar ==
  /\ pc = "serial" /\ rx # <<>> /\ Head(rx) \notin {"\n", "\r"}
  /\ rx' = Tail(rx)
  /\ line' = lineWith(line, Head(rx))
  /\ rawCount' = IF rawCount > LINE_CAP THEN rawCount ELSE rawCount + 1
  /\ tx' = <<>>
  /\ ev' = Ev("byte", <<>>)
  /\ temps_out' = NoTemps /\ sensors' = NoReadings
  /\ BusIdle
  /\ UNCHANGED <<g_valve, g_mode, valvePin, g_pump_cmd_pct, OCR4A, pc, clk, now,
                 lastSample, lastVfdPoll, g_vfd>>

\* loop(): the receive buffer is drained, `now = millis()`
SerialDone ==
  /\ pc = "serial" /\ rx = <<>>
  /\ now' = clk
  /\ pc' = "poll"
  /\ tx' = <<>>
  /\ ev' = Ev("drained", <<>>)
  /\ temps_out' = NoTemps /\ sensors' = NoReadings
  /\ BusIdle
  /\ UNCHANGED <<g_valve, g_mode, valvePin, g_pump_cmd_pct, OCR4A, line, rx, clk,
                 lastSample, lastVfdPoll, g_vfd, rawCount>>

\* loop(): the VFD poll is due
PollDue ==
  /\ pc = "poll" /\ Ge32(Sub32(now, lastVfdPoll), VFD_POLL_MS)
  /\ lastVfdPoll' = now
  /\ pc' = "vfd_flush"
  /\ tx' = <<>>
  /\ ev' = Ev("polldue", <<>>)
  /\ temps_out' = NoTemps /\ sensors' = NoReadings
  /\ vfdTx' = <<>> /\ bus' = NoBus
  /\ UNCHANGED <<g_valve, g_mode, valvePin, g_pump_cmd_pct, OCR4A, line, rx, clk,
                 now, lastSample, g_vfd, rawCount, timer4, vfdRx>>
  /\ UNCHANGED <<wait, lastValveChange, web>>

\* vfdReadM09toM12: the stale bytes are read away
VfdFlush ==
  /\ pc = "vfd_flush"
  /\ vfdRx' = flushStale(vfdRx)
  /\ bus' = [bus EXCEPT !.flushed = vfdRx, !.steps = Append(@, "flush")]
  /\ pc' = "vfd_send"
  /\ tx' = <<>> /\ vfdTx' = <<>>
  /\ ev' = Ev("flush", <<>>)
  /\ temps_out' = NoTemps /\ sensors' = NoReadings
  /\ UNCHANGED <<g_valve, g_mode, valvePin, g_pump_cmd_pct, OCR4A, line, rx, clk,
                 now, lastSample, lastVfdPoll, g_vfd, rawCount, timer4>>
  /\ UNCHANGED <<wait, lastValveChange, web>>

\* vfdReadM09toM12: the request is written and sent out
VfdSend ==
  /\ pc = "vfd_send"
  /\ vfdTx' = requestFrame
  /\ bus' = [bus EXCEPT !.pending = vfdRx, !.sent = @ + 1,
                         !.steps = Append(@, "send")]
  /\ pc' = "vfd_wait"
  /\ tx' = <<>>
  /\ ev' = Ev("request", <<>>)
  /\ temps_out' = NoTemps /\ sensors' = NoReadings
  /\ UNCHANGED <<g_valve, g_mode, valvePin, g_pump_cmd_pct, OCR4A, line, rx, clk,
                 now, lastSample, lastVfdPoll, g_vfd, rawCount, timer4, vfdRx>>
  /\ UNCHANGED <<wait, lastValveChange, web>>

\* vfdReadM09toM12 and pollVfd: the reply loop, the checks, the snapshot;
\* bytes beyond the reply buffer stay in the receive buffer
VfdReceive(P) ==
  /\ pc = "vfd_wait"
  /\ \E reply \in P :
       /\ clk' = Add32(clk, pollDuration(vfdRx \o reply))
       /\ g_vfd' = pollVfd(vfdRx \o reply, clk')
       /\ vfdRx' = SubSeq(vfdRx \o reply, Len(received(vfdRx \o reply)) + 1,
                          Len(vfdRx \o reply))
       /\ bus' = [bus EXCEPT !.arrived = reply,
                              !.buf = received(vfdRx \o reply),
                              !.steps = Append(@, "reply")]
  /\ pc' = afterPoll(g_vfd'.valid)
  /\ tx' = <<>> /\ vfdTx' = <<>>
  /\ ev' = Ev("poll", <<>>)
  /\ temps_out' = NoTemps /\ sensors' = NoReadings
  /\ UNCHANGED <<g_valve, g_mode, valvePin, g_pump_cmd_pct, OCR4A, line, rx, now,
                 lastSample, lastVfdPoll, rawCount, timer4>>
  /\ UNCHANGED <<wait, lastValveChange, web>>

\* the drive, or noise on the line, puts bytes into the Serial3 receive
\* buffer outside a reply window; what comes in before the flush is taken
\* where the poll starts, what comes in behind the flush before the request
\* is written
VfdStray(S) ==
  /\ pc \in {"poll", "vfd_send"} /\ vfdRx = <<>>
  /\ \E b \in S :
       /\ vfdRx' = b
       /\ bus' = IF pc = "vfd_send" THEN [bus EXCEPT !.late = b] ELSE bus
  /\ tx' = <<>> /\ vfdTx' = <<>>
  /\ ev' = Ev("stray", <<>>)
  /\ temps_out' = NoTemps /\ sensors' = NoReadings
  /\ UNCHANGED <<g_valve, g_mode, valvePin, g_pump_cmd_pct, OCR4A, line, rx, pc,
                 clk, now, lastSample, lastVfdPoll, g_vfd, rawCount, timer4>>
  /\ UNCHANGED <<wait, lastValveChange, web>>

\* loop(): the VFD poll is not due
PollSkip ==
  /\ pc = "poll" /\ ~Ge32(Sub32(now, lastVfdPoll), VFD_POLL_MS)
  /\ pc' = "sample"
  /\ tx' = <<>>
  /\ ev' = Ev("nopoll", <<>>)
  /\ temps_out' = NoTemps /\ sensors' = NoReadings
  /\ BusIdle
  /\ UNCHANGED <<g_valve, g_mode, valvePin, g_pump_cmd_pct, OCR4A, line, rx, clk,
                 now, lastSample, lastVfdPoll, g_vfd, rawCount>>

\* loop(): a sampling tick
SampleTick(R) ==
  /\ pc = "sample" /\ sampleDue(now, lastSample)
  /\ lastSample' = now
  /\ \E rd \in [1..NumTcs -> R] : sensors' = rd
  /\ temps_out' = [i \in 1..MAX_TCS_OUT |->
                     IF i <= NumTcs THEN safeReadCelsius(sensors'[i]) ELSE NAN]
  /\ LET c == controlUpdate(g_mode, g_valve, temps_out')
     IN  IF c.apply
         THEN g_valve' = applyValve(c.v).valve /\ valvePin' = applyValve(c.v).pin
         ELSE UNCHANGED <<g_valve, valvePin>>
  /\ tx' = <<emitTelemetry(temps_out', MAX_TCS_OUT, now)>>
  /\ pc' = "serial"
  /\ ev' = Ev("tick", <<>>)
  /\ BusIdle
  /\ UNCHANGED <<g_mode, g_pump_cmd_pct, OCR4A, line, rx, clk, now, lastVfdPoll,
                 g_vfd, rawCount>>

\* loop(): no sampling tick is due
SampleSkip ==
  /\ pc = "sample" /\ ~sampleDue(now, lastSample)
  /\ pc' = "serial"
  /\ tx' = <<>>
  /\ ev' = Ev("notick", <<>>)
  /\ temps_out' = NoTemps /\ sensors' = NoReadings
  /\ BusIdle
  /\ UNCHANGED <<g_valve, g_mode, valvePin, g_pump_cmd_pct, OCR4A, line, rx, clk,
                 now, lastSample, lastVfdPoll, g_vfd, rawCount>>

\* vfdReadM09toM12, the reply loop step by step.  VFD.flush() has returned,
\* the request is out: `start = millis()`, `len = 0`
WaitStart ==
  /\ pc = "vfd_wait" /\ ~wait.on
  /\ clk' = Add32(clk, REQUEST_MS)
  /\ wait' = [on |-> TRUE, start |-> clk', buf |-> <<>>]
  /\ tx' = <<>> /\ vfdTx' = <<>>
  /\ ev' = Ev("waitstart", <<>>)
  /\ temps_out' = NoTemps /\ sensors' = NoReadings
  /\ UNCHANGED <<g_valve, g_mode, valvePin, g_pump_cmd_pct, OCR4A, line, rx, pc,
                 now, lastSample, lastVfdPoll, g_vfd, rawCount, timer4, vfdRx,
                 bus, lastValveChange, web>>

\* the link delivers a byte into the Serial3 receive buffer; at most two
\* wait there unread
WaitByteIn(B) ==
  /\ wait.on /\ Len(vfdRx) < 2
  /\ \E b \in B :
       /\ vfdRx' = Append(vfdRx, b)
       /\ bus' = [bus EXCEPT !.arrived = Append(@, b)]
  /\ tx' = <<>> /\ vfdTx' = <<>>
  /\ ev' = Ev("bytein", <<>>)
  /\ temps_out' = NoTemps /\ sensors' = NoReadings
  /\ UNCHANGED <<g_valve, g_mode, valvePin, g_pump_cmd_pct, OCR4A, line, rx, pc,
                 clk, now, lastSample, lastVfdPoll, g_vfd, rawCount, timer4,
                 wait, lastValveChange, web>>

\* a pass of the loop with a byte available: `buf[len++] = VFD.read()`
WaitRead ==
  /\ wait.on /\ replyLoopRuns(Sub32(clk, wait.start), Len(wait.buf))
  /\ vfdRx # <<>>
  /\ wait' = [wait EXCEPT !.buf = Append(@, Head(vfdRx))]
  /\ vfdRx' = Tail(vfdRx)
  /\ tx' = <<>> /\ vfdTx' = <<>>
  /\ ev' = Ev("waitread", <<>>)
  /\ temps_out' = NoTemps /\ sensors' = NoReadings
  /\ UNCHANGED <<g_valve, g_mode, valvePin, g_pump_cmd_pct, OCR4A, line, rx, pc,
                 clk, now, lastSample, lastVfdPoll, g_vfd, rawCount, timer4,
                 bus, lastValveChange, web>>

\* millis() advances while the loop runs (a pass of the loop is far shorter
\* than a millisecond, so the condition is evaluated at every value of the
\* clock; the passes that find no byte change nothing)
WaitTick ==
  /\ wait.on /\ replyLoopRuns(Sub32(clk, wait.start), Len(wait.buf))
  /\ clk.hi = 0 /\ clk.lo < MaxClock + REQUEST_MS + VFD_TIMEOUT_MS
  /\ clk' = Add32(clk, tickStride(Sub32(clk, wait.start)))
  /\ tx' = <<>> /\ vfdTx' = <<>>
  /\ ev' = Ev("waittick", <<>>)
  /\ temps_out' = NoTemps /\ sensors' = NoReadings
  /\ UNCHANGED <<g_valve, g_mode, valvePin, g_pump_cmd_pct, OCR4A, line, rx, pc,
                 now, lastSample, lastVfdPoll, g_vfd, rawCount, timer4, vfdRx,
                 bus, wait, lastValveChange, web>>

\* the step that leaves the reply loop, by what it does to the position
LeavesReplyLoop ==
  /\ wait.on /\ ~replyLoopRuns(Sub32(clk, wait.start), Len(wait.buf))
  /\ pc' = "sample"

\* the condition of the loop is false: the checks on buf, then pollVfd
WaitDone ==
  /\ wait.on /\ ~replyLoopRuns(Sub32(clk, wait.start), Len(wait.buf))
  /\ g_vfd' = pollVfd(wait.buf, clk)
  /\ bus' = [bus EXCEPT !.buf = wait.buf, !.steps = Append(@, "reply")]
  /\ wait' = [wait EXCEPT !.on = FALSE]
  /\ pc' = afterPoll(g_vfd'.valid)
  /\ tx' = <<>> /\ vfdTx' = <<>>
  /\ ev' = Ev("poll", <<>>)
  /\ temps_out' = NoTemps /\ sensors' = NoReadings
  /\ UNCHANGED <<g_valve, g_mode, valvePin, g_pump_cmd_pct, OCR4A, line, rx, clk,
                 now, lastSample, lastVfdPoll, rawCount, timer4, vfdRx,
                 lastValveChange, web>>

Next(L, R, P) ==
  \/ HostSend(L)
  \/ ClockAdvance
  \/ ReadCommand
  \/ ReadEmptyLine
  \/ ReadChar
  \/ SerialDone
  \/ PollDue
  \/ VfdFlush
  \/ VfdSend
  \/ VfdReceive(P)
  \/ PollSkip
  \/ SampleTick(R)
  \/ SampleSkip

NextCtl == Next(LinesCtl, ReadingsCtl, RepliesBasic)
NextRange == Next(LinesCtl, ReadingsRange, RepliesBasic)
NextCmd == Next(LinesCmd, ReadingsCmd, RepliesBasic)

\* requests to setPumpCommandPct, in thousandths of a percent: the program
\* passes it finite values only (handleCommand tests isfinite first)
PumpRequests ==
  { Num(-5000), Num(-1), Num(0), Num(1), Num(50), Num(51), Num(12500),
    Num(50000), Num(99949), Num(99950), Num(100000), Num(100001),
    Num(150000), Num(6553600) }

\* a call setPumpCommandPct(p): ev keeps the argument and the one before
CallSetPumpCommandPct(P) ==
  /\ ev.op \in {"setup", "setPumpCommandPct"}
  /\ \E p \in P :
       /\ g_pump_cmd_pct' = setPumpCommandPct(p).pct
       /\ OCR4A' = setPumpCommandPct(p).ocr
       /\ ev' = [op |-> "setPumpCommandPct", line |-> <<>>, pre |-> Pre,
                 raw |-> rawCount, vfd |-> g_vfd, arg |-> p, prevArg |-> ev.arg]
  /\ tx' = <<>>
  /\ BusIdle
  /\ UNCHANGED <<g_valve, g_mode, valvePin, line, rx, pc, clk, now, lastSample,
                 lastVfdPoll, g_vfd, temps_out, sensors, rawCount>>

\* duty fractions for setDuty, in units of 1e-5
DutyRequests ==
  { Num(-100000), Num(-1), Num(0), Num(1), Num(50), Num(51), Num(2500),
    Num(5000), Num(50000), Num(99949), Num(99950), Num(100000), Num(100001),
    Num(200000), Num(6560000), NAN, INF(1), INF(-1) }

\* a call setDuty(f)
CallSetDuty(F) ==
  /\ ev.op \in {"setup", "setDuty"}
  /\ \E f \in F :
       /\ OCR4A' = setDuty(f)
       /\ ev' = [op |-> "setDuty", line |-> <<>>, pre |-> Pre,
                 raw |-> rawCount, vfd |-> g_vfd, arg |-> f, prevArg |-> ev.arg]
  /\ tx' = <<>>
  /\ BusIdle
  /\ UNCHANGED <<g_valve, g_mode, valvePin, g_pump_cmd_pct, line, rx, pc, clk,
                 now, lastSample, lastVfdPoll, g_vfd, temps_out, sensors,
                 rawCount>>

\* byte sequences to protect with a CRC: every sequence of up to two bytes
\* over CrcBytesIn, the six bytes of the request, two 11-byte reply bodies
CrcBytesIn == {0, 1, 3, 8, 128, 255}

CrcPayloads ==
  {<<>>} \cup {<<a>> : a \in CrcBytesIn}
         \cup {<<a, b>> : a \in CrcBytesIn, b \in CrcBytesIn}
         \cup {<<1, 3, 8, 9, 0, 4>>,
               <<1, 3, 8, 14, 1, 4, 176, 9, 196, 8, 252>>,
               <<1, 3, 8, 0, 0, 0, 0, 0, 0, 0, 0>>}

\* frame with bit k inverted, bits counted from 1 through the bytes in order,
\* least significant first; k = 0 leaves the frame as it is
flipBit(frame, k) ==
  IF k = 0 THEN frame
  ELSE LET i == (k - 1) \div 8 + 1
           m == 2 ^ ((k - 1) % 8)
       IN  [frame EXCEPT ![i] = BitXor(@, m)]

\* the number of bits of the frame that carries payload d
frameBits(d) == 8 * (Len(d) + 2)

\* a frame built as the sender builds it (payload, CRC low, CRC high), one
\* bit or none inverted on the way, checked as the receiver checks it; a
\* payload is first sent intact, then with each of its bits inverted in
\* turn, and then another payload is taken
CallCrcCheck(D) ==
  /\ ev.op \in {"setup", "crc"}
  /\ \E d \in D : \E k \in 0..frameBits(d) :
       /\ IF ev.op = "crc" /\ ev.bit < frameBits(ev.payload)
          THEN d = ev.payload /\ k = ev.bit + 1
          ELSE k = 0
       /\ LET got == flipBit(withCrc(d), k)
          IN  ev' = [op |-> "crc", line |-> <<>>, pre |-> Pre,
                     raw |-> rawCount, vfd |-> g_vfd, payload |-> d,
                     bit |-> k, frame |-> got, ok |-> crcOk(got, Len(got))]
  /\ tx' = <<>>
  /\ BusIdle
  /\ UNCHANGED <<g_valve, g_mode, valvePin, g_pump_cmd_pct, OCR4A, line, rx,
                 pc, clk, now, lastSample, lastVfdPoll, g_vfd, temps_out,
                 sensors, rawCount>>

\* the bytes of the link and the readings while the reply loop is looked at
BytesWait == {85}
ReadingsWait == { Rd(259) }

\* loop() with the reply loop taken step by step, no commands
NextWait ==
  \/ ClockAdvance
  \/ SerialDone
  \/ PollDue
  \/ VfdFlush
  \/ VfdSend
  \/ WaitStart
  \/ WaitByteIn(BytesWait)
  \/ WaitRead
  \/ WaitTick
  \/ WaitDone
  \/ PollSkip
  \/ SampleTick(ReadingsWait)
  \/ SampleSkip

NextCrc == CallCrcCheck(CrcPayloads)
NextPump == CallSetPumpCommandPct(PumpRequests)
NextDuty == CallSetDuty(DutyRequests)

NextBus == Next(LinesBus, ReadingsCmd, RepliesBus) \/ VfdStray(Strays)

\* control: few commands, readings around the dead-band
Spec == Init /\ [][NextCtl]_vars
\* sensors: readings around the limits of the valid range
SpecRange == Init /\ [][NextRange]_vars
\* commands: every kind of input line
SpecCmd == Init /\ [][NextCmd]_vars
\* field bus: replies of every kind, stray bytes on the line
SpecBus == Init /\ [][NextBus]_vars
\* setPumpCommandPct called with one request after another
SpecPump == Init /\ [][NextPump]_vars
\* setDuty called with one fraction after another
SpecDuty == Init /\ [][NextDuty]_vars
\* modbusCRC and the CRC test applied to one frame after another
SpecCrc == Init /\ [][NextCrc]_vars
\* the reply loop step by step: the processor keeps running the code and
\* the millisecond tick keeps advancing; the link is free to stay silent
SpecWait ==
  /\ Init /\ [][NextWait]_vars
  /\ WF_wait(WaitStart) /\ WF_clk(WaitTick) /\ WF_pc(LeavesReplyLoop)

\* millis() 2500 ms before it wraps to 0, after 49.7 days
WrapStart == [hi |-> WORD - 1, lo |-> WORD - 2500]
WrapSpan == 4000            \* the clock is followed this far from WrapStart
WrapStrides == {395, 396}

\* the program after 49.7 days, at the end of an iteration of loop() with
\* a poll the drive did not answer and a tick; no command was ever given
InitWrap ==
  /\ g_valve = CLOSED /\ valvePin = LOW /\ g_mode = AUTO
  /\ g_pump_cmd_pct = 0 /\ OCR4A = 0
  /\ line = <<>> /\ rx = <<>> /\ pc = "serial" /\ rawCount = 0
  /\ clk = WrapStart
  /\ now = Sub32(WrapStart, U32(REQUEST_MS + VFD_TIMEOUT_MS))
  /\ lastSample = now /\ lastVfdPoll = now
  /\ g_vfd = [BootSnapshot EXCEPT !.lastPollMs = WrapStart]
  /\ temps_out = NoTemps /\ sensors = NoReadings
  /\ tx = <<>>
  /\ timer4 = timerRegs(setupPwm2kHz)
  /\ vfdRx = <<>> /\ vfdTx = <<>> /\ bus = NoBus /\ wait = NoWait
  /\ lastValveChange = U32(0)
  /\ web = WebIdle
  /\ ev = [op |-> "wrap", line |-> <<>>,
           pre |-> [mode |-> AUTO, valve |-> CLOSED, pin |-> LOW, pct |-> 0, ocr |-> 0],
           raw |-> 0, vfd |-> g_vfd, boot |-> FALSE, sample |-> lastSample]

\* millis() advances, through the wrap; loop() reads it next
ClockWrap ==
  /\ pc = "serial" /\ rx = <<>>
  /\ \E d \in WrapStrides :
       /\ Sub32(clk, WrapStart).hi = 0
       /\ Sub32(clk, WrapStart).lo + d <= WrapSpan
       /\ clk' = Add32(clk, d)
  /\ tx' = <<>>
  /\ ev' = Ev("clock", <<>>)
  /\ temps_out' = NoTemps /\ sensors' = NoReadings
  /\ BusIdle
  /\ UNCHANGED <<g_valve, g_mode, valvePin, g_pump_cmd_pct, OCR4A, line, rx, pc,
                 now, lastSample, lastVfdPoll, g_vfd, rawCount>>

NextWrap ==
  \/ ClockWrap
  \/ SerialDone
  \/ PollDue
  \/ VfdFlush
  \/ VfdSend
  \/ VfdReceive(RepliesBasic)
  \/ PollSkip
  \/ SampleTick(ReadingsWait)
  \/ SampleSkip

\* loop() while the 32-bit millisecond counter wraps
SpecWrap == InitWrap /\ [][NextWrap]_vars

\* replies whose registers have the top bit set, bytes that differ, zeros
RepliesDecode ==
  { goodReply(<<65535, 32768, 258, 1>>),
    goodReply(<<0, 255, 256, 65280>>),
    goodReply(<<3585, 1200, 2500, 2300>>) }

NextDecode == Next(LinesBus, ReadingsWait, RepliesDecode)
\* field bus: the decoding of replies that pass
SpecDecode == Init /\ [][NextDecode]_vars

\* the readings, replies and lines while the loop is followed to its ticks:
\* channels that work, are faulted or out of range; replies that are good,
\* missing, cut short or damaged
ReadingsLive == { Rd(259), Faulted(243), Rd(TEMP_MAX + 1) }
RepliesLive ==
  { goodReply(<<3585, 1200, 2500, 2300>>),
    <<>>,
    SubSeq(goodReply(<<3585, 1200, 2500, 2300>>), 1, 5),
    [goodReply(<<3585, 1200, 2500, 2300>>) EXCEPT ![EXPECTED_LEN] = (@ + 1) % 256] }

NextLive == Next(LinesBus, ReadingsLive, RepliesLive) \/ VfdStray(Strays)

\* the processor runs the statement it is at: the parser takes the next byte
\* of the receive buffer, and every other position of loop() is left
DrainsByte == pc = "serial" /\ rx # <<>> /\ rx' = Tail(rx)
LeavesSerial == pc = "serial" /\ rx = <<>> /\ pc' = "poll"
LeavesPosition ==
  \/ pc = "poll" /\ pc' \in {"vfd_flush", "sample"}
  \/ pc = "vfd_flush" /\ pc' = "vfd_send"
  \/ pc = "vfd_send" /\ pc' = "vfd_wait"
  \/ pc = "vfd_wait" /\ pc' = "sample"
  \/ pc = "sample" /\ pc' = "serial"

\* loop() run for ever: the processor keeps taking steps; the host, the
\* drive and the sensors are free; the host leaves the receive buffer empty
\* again and again
SpecLive ==
  /\ Init /\ [][NextLive]_vars
  /\ WF_rx(DrainsByte) /\ SF_pc(LeavesSerial) /\ WF_pc(LeavesPosition)

----------------------------------------------------------------------------
(* The two-channel program with a minimum hold time (src/src/main.cpp) *)

HoldMaxClock == 32000       \* the clock of this program stops advancing here

HOLD_CHANNELS == 2          \* tc1, tc2
HOLD_SETPOINT == 230        \* 23.0 C
HOLD_HYSTERESIS == 5        \* 0.5 C
MIN_VALVE_INTERVAL == 15000 \* ms
HOLD_SAMPLE_MS == 1000      \* `if (now - lastSample < 1000) return`

\* read_tc(): NAN when the chip reports a fault, else the temperature as
\* the chip gives it
read_tc(r) == IF r.f # 0 THEN NAN ELSE r.t

isnan(x) == x.cls = "nan"

\* mean2(); temperatures are in tenths of a degree, the mean is in
\* twentieths so that 0.5f * (a + b) stays a whole number
Twentieths(x) == 2 * x

mean2(a, b) ==
  IF ~isnan(a) /\ ~isnan(b) THEN Num(a.v + b.v)
  ELSE IF ~isnan(a) THEN Num(Twentieths(a.v))
  ELSE IF ~isnan(b) THEN Num(Twentieths(b.v))
  ELSE NAN

\* (variant: no hold time)
M_holdElapsed_Always(nowMs, last) == TRUE

\* now - lastValveChange >= MIN_VALVE_INTERVAL
holdElapsed(nowMs, last) == Ge32(Sub32(nowMs, last), MIN_VALVE_INTERVAL)

\* step 2 of loop(): the valve, the pin and lastValveChange it leaves
holdControl(valve, pin, last, t_avg, nowMs) ==
  IF ~isnan(t_avg) /\ holdElapsed(nowMs, last)
  THEN IF valve = CLOSED
          /\ FLess(Num(Twentieths(HOLD_SETPOINT + HOLD_HYSTERESIS)), t_avg)
       THEN [valve |-> OPEN, pin |-> HIGH, last |-> nowMs]
       ELSE IF valve = OPEN
               /\ FLess(t_avg, Num(Twentieths(HOLD_SETPOINT - HOLD_HYSTERESIS)))
       THEN [valve |-> CLOSED, pin |-> LOW, last |-> nowMs]
       ELSE [valve |-> valve, pin |-> pin, last |-> last]
  ELSE [valve |-> valve, pin |-> pin, last |-> last]

\* what loop() prints on a tick: a line for each fault, then the CSV row
holdOutput(rd, nowMs, valve) ==
  SelectSeq(<<[type |-> "fault", tag |-> 1, t |-> nowMs, t1 |-> NAN,
               t2 |-> NAN, valve |-> valve, on |-> rd[1].f # 0],
              [type |-> "fault", tag |-> 2, t |-> nowMs, t1 |-> NAN,
               t2 |-> NAN, valve |-> valve, on |-> rd[2].f # 0]>>,
            LAMBDA l : l.on)
  \o <<[type |-> "csv", tag |-> 0, t |-> nowMs, t1 |-> read_tc(rd[1]),
        t2 |-> read_tc(rd[2]), valve |-> valve, on |-> TRUE]>>

\* what a MAX31856 of this program can return on a tick: below, inside and
\* above the dead-band, or a fault
ReadingsHold == { Rd(220), Rd(230), Rd(250), Faulted(250) }

\* the state after setup() of this program; the variables of the other
\* program are not its own and stay as they are here
InitHold ==
  /\ g_valve = CLOSED
  /\ valvePin = LOW
  /\ lastSample = U32(0)
  /\ lastValveChange = U32(0)
  /\ web = WebIdle
  /\ clk = U32(0)
  /\ now = U32(0)
  /\ sensors = [i \in 1..HOLD_CHANNELS |-> [t |-> NAN, f |-> 0]]
  /\ temps_out = [i \in 1..HOLD_CHANNELS |-> NAN]
  /\ tx = <<[type |-> "comment", text |-> "time_s,temp1_C,temp2_C,valve",
             applied |-> 0]>>
  /\ ev = [op |-> "setup", line |-> <<>>,
           pre |-> [mode |-> AUTO, valve |-> CLOSED, pin |-> LOW, pct |-> 0, ocr |-> 0],
           raw |-> 0, vfd |-> BootSnapshot, boot |-> TRUE,
           last |-> U32(0), t_avg |-> NAN]
  /\ g_mode = AUTO /\ g_pump_cmd_pct = 0 /\ OCR4A = 0
  /\ line = <<>> /\ rx = <<>> /\ pc = "loop" /\ rawCount = 0
  /\ lastVfdPoll = U32(0) /\ g_vfd = BootSnapshot
  /\ timer4 = timerRegs(setupPwm2kHz)
  /\ vfdRx = <<>> /\ vfdTx = <<>> /\ bus = NoBus /\ wait = NoWait

\* the part of the state this program does not have
HoldKeeps ==
  UNCHANGED <<g_mode, g_pump_cmd_pct, OCR4A, line, rx, pc, lastVfdPoll, g_vfd,
              rawCount, timer4, vfdRx, vfdTx, bus, wait>>

HoldEv(op, t_avg) ==
  [op |-> op, line |-> <<>>, pre |-> Pre, raw |-> rawCount, vfd |-> g_vfd,
   boot |-> FALSE, last |-> lastValveChange, t_avg |-> t_avg]

\* millis() advances by a second, loop() having caught up with it: loop()
\* runs many times in a millisecond, so no due tick is passed over
HoldClock ==
  /\ ~Ge32(Sub32(clk, lastSample), HOLD_SAMPLE_MS)
  /\ clk.hi = 0 /\ clk.lo + HOLD_SAMPLE_MS <= HoldMaxClock
  /\ clk' = Add32(clk, HOLD_SAMPLE_MS)
  /\ tx' = <<>>
  /\ ev' = HoldEv("holdclock", NAN)
  /\ HoldKeeps
  /\ UNCHANGED <<g_valve, valvePin, now, lastSample, lastValveChange, web, sensors,
                 temps_out>>

\* loop(): `if (now - lastSample < 1000) return;`
HoldSkip ==
  /\ now' = clk
  /\ ~Ge32(Sub32(now', lastSample), HOLD_SAMPLE_MS)
  /\ tx' = <<>>
  /\ ev' = HoldEv("holdskip", NAN)
  /\ HoldKeeps
  /\ UNCHANGED <<g_valve, valvePin, clk, lastSample, lastValveChange, web, sensors,
                 temps_out>>

\* loop(): a tick
HoldTick(R) ==
  /\ now' = clk
  /\ Ge32(Sub32(now', lastSample), HOLD_SAMPLE_MS)
  /\ lastSample' = now'
  /\ \E rd \in [1..HOLD_CHANNELS -> R] : sensors' = rd
  /\ temps_out' = [i \in 1..HOLD_CHANNELS |-> read_tc(sensors'[i])]
  /\ LET t_avg == mean2(temps_out'[1], temps_out'[2])
         c == holdControl(g_valve, valvePin, lastValveChange, t_avg, now')
     IN  /\ g_valve' = c.valve
         /\ valvePin' = c.pin
         /\ lastValveChange' = c.last /\ UNCHANGED web
         /\ ev' = HoldEv("holdtick", t_avg)
  /\ tx' = holdOutput(sensors', now', g_valve')
  /\ HoldKeeps
  /\ UNCHANGED clk

NextHold == HoldClock \/ HoldSkip \/ HoldTick(ReadingsHold)

SpecHold == InitHold /\ [][NextHold]_vars

----------------------------------------------------------------------------
(* The web client at work *)

WebQueue == 2        \* commands on their way to the firmware, at most
WebMaxClock == 6500  \* Date.now() stops advancing here
WebWired == 2        \* channels that ever read valid; the others stay null

\* the firmware's variables, which no step of the page touches
FirmwareKeeps ==
  UNCHANGED <<g_valve, g_mode, valvePin, g_pump_cmd_pct, OCR4A, line, rx, pc,
              clk, now, lastSample, lastVfdPoll, g_vfd, temps_out, sensors, tx,
              ev, rawCount, timer4, vfdRx, vfdTx, bus, wait, lastValveChange>>

\* a step of the page or of what it talks to: `out` holds what this step sent
WebStep(op, w) == web' = [w EXCEPT !.op = op] /\ FirmwareKeeps
Quiet == [web EXCEPT !.out = <<>>]

\* temps arrays of the frames: all null, channel 1 alone valid, the wired
\* channels all below the set-point, and channel 1 below it with the other
\* wired channels above
WebTemps ==
  { [i \in 1..MAX_TCS_OUT |-> NullTemp],
    [i \in 1..MAX_TCS_OUT |-> IF i = 1 THEN [null |-> FALSE, v |-> 300] ELSE NullTemp],
    [i \in 1..MAX_TCS_OUT |-> IF i <= WebWired THEN [null |-> FALSE, v |-> 200]
                              ELSE NullTemp],
    [i \in 1..MAX_TCS_OUT |->
       IF i = 1 THEN [null |-> FALSE, v |-> 200]
       ELSE IF i <= WebWired THEN [null |-> FALSE, v |-> 300] ELSE NullTemp] }

\* the end of the script: connectWebSocket()
PageLoad ==
  /\ ~web.loaded
  /\ WebStep("connect", [Quiet EXCEPT !.ws = "connecting", !.loaded = TRUE])

\* the server starts, or the network to it comes back
ServerUp ==
  /\ ~web.reachable
  /\ WebStep("up", [Quiet EXCEPT !.reachable = TRUE])

\* ws 'open': reconnectDelay = 1000
WsOpen ==
  /\ web.ws = "connecting" /\ web.reachable
  /\ WebStep("open", [Quiet EXCEPT !.ws = "open",
                                   !.reconnectDelay = RECONNECT_FIRST_MS])

\* Date.now() advances by the length of the cool-down
DateClock ==
  /\ web.dateNow + AUTO_COMMAND_COOLDOWN_MS <= WebMaxClock
  /\ WebStep("date", [Quiet EXCEPT !.dateNow = @ + AUTO_COMMAND_COOLDOWN_MS])

\* a click on VALVE OPEN, VALVE CLOSE or VALVE AUTO
Click ==
  /\ Len(web.toFw) < WebQueue
  /\ \E cmd \in {S_VALVE_OPEN, S_VALVE_CLOSE, S_VALVE_AUTO} :
       WebStep("click", [clickCommand(Quiet, cmd) EXCEPT
                           !.manual = cmd # S_VALVE_AUTO])

\* onSensorCheckboxChange: the checkbox of a wired channel is toggled
Checkbox ==
  \E idx \in 1..WebWired :
    /\ ~web.latestSnapshot.null /\ idx <= web.latestSnapshot.sensorCount
    /\ LET sel == [web.sensorSelections EXCEPT ![idx] = ~@]
       IN  WebStep("checkbox",
                   [Quiet EXCEPT !.sensorSelections = sel,
                                 !.latestSnapshot = updateSensorStats(@, sel)])

\* ws 'message' with a telemetry frame
Message ==
  /\ web.ws = "open" /\ web.frames # <<>> /\ Len(web.toFw) < WebQueue
  /\ WebStep("message",
             handleTelemetry([Quiet EXCEPT !.frames = Tail(@)], Head(web.frames)))

\* the firmware handles a command the server wrote to its serial port
FwHandle ==
  /\ web.toFw # <<>>
  /\ LET cmd == Head(web.toFw)
         fw == IF cmd = S_VALVE_OPEN THEN [mode |-> FORCE_OPEN, valve |-> OPEN]
               ELSE IF cmd = S_VALVE_CLOSE THEN [mode |-> FORCE_CLOSE, valve |-> CLOSED]
               ELSE [web.fw EXCEPT !.mode = AUTO]
     IN  WebStep("handled", [Quiet EXCEPT !.toFw = Tail(@), !.fw = fw])

\* a sampling tick of the firmware; the server passes the frame on to a
\* connected page
FwTick ==
  /\ web.frames = <<>>
  /\ \E T \in WebTemps :
       LET temps == [i \in 1..MAX_TCS_OUT |->
                       IF T[i].null THEN NAN ELSE Num(T[i].v)]
           c == controlUpdate(web.fw.mode, web.fw.valve, temps)
           frame == [temps |-> T, valve |-> IF c.v = OPEN THEN 1 ELSE 0,
                     mode |-> modeChar(web.fw.mode)]
       IN  WebStep("tick", [Quiet EXCEPT
                              !.fw.valve = c.v,
                              !.frames = IF web.ws = "open" THEN <<frame>> ELSE <<>>])

NextWeb ==
  \/ PageLoad \/ ServerUp \/ WsOpen \/ DateClock \/ Click \/ Checkbox
  \/ Message \/ FwHandle \/ FwTick

SpecWeb == Init /\ [][NextWeb]_vars

----------------------------------------------------------------------------
(* The web client's connection *)

TIMER_STRIDE == 1000   \* the grain of time while a reconnect timer runs

\* the server stops, or the network to it goes
ServerDown ==
  /\ web.reachable
  /\ WebStep("down", [Quiet EXCEPT !.reachable = FALSE])

\* ws 'error' then 'close' on a socket that never opened: scheduleReconnect()
WsFail ==
  /\ web.ws = "connecting" /\ ~web.reachable
  /\ WebStep("close", [scheduleReconnect(Quiet) EXCEPT
                         !.scheduled = web.reconnectDelay, !.waited = 0])

\* ws 'close' on an open socket: scheduleReconnect()
WsLost ==
  /\ web.ws = "open"
  /\ WebStep("close", [scheduleReconnect(Quiet) EXCEPT
                         !.scheduled = web.reconnectDelay, !.waited = 0])

\* time passes while the timer of setTimeout runs
TimerRuns ==
  /\ web.timers # <<>> /\ web.timers[1] > 0
  /\ LET step == IF web.timers[1] < TIMER_STRIDE THEN web.timers[1]
                 ELSE TIMER_STRIDE
     IN  WebStep("wait", [Quiet EXCEPT !.timers[1] = @ - step,
                                       !.waited = @ + step])

\* the timer fires: connectWebSocket()
TimerFires ==
  /\ web.timers # <<>> /\ web.timers[1] = 0
  /\ WebStep("reconnect", [Quiet EXCEPT !.timers = Tail(@), !.ws = "connecting"])

NextSocket ==
  \/ PageLoad \/ ServerUp \/ ServerDown \/ WsOpen \/ WsFail \/ WsLost
  \/ TimerRuns \/ TimerFires

\* the browser runs its timers and finishes a connection attempt
SpecSocket ==
  /\ Init /\ [][NextSocket]_vars
  /\ WF_vars(PageLoad) /\ WF_vars(TimerRuns) /\ WF_vars(TimerFires)
  /\ WF_vars(WsOpen)

----------------------------------------------------------------------------
(* Vocabulary of the properties *)

\* a channel is valid on a tick when its chip reports no fault and a finite
\* temperature within [TEMP_MIN, TEMP_MAX], limits included
validReading(r) ==
  r.f = 0 /\ r.t.cls = "num" /\ r.t.v >= TEMP_MIN /\ r.t.v <= TEMP_MAX

ValidChannels == {i \in 1..NumTcs : validReading(sensors[i])}

RECURSIVE SetSum(_)
SetSum(S) ==
  IF S = {} THEN 0
  ELSE LET i == CHOOSE j \in S : TRUE IN sensors[i].t.v + SetSum(S \ {i})

\* the arithmetic mean of the valid channels, compared exactly as a fraction
MeanAbove(limit) ==
  ValidChannels # {} /\ SetSum(ValidChannels) > limit * Cardinality(ValidChannels)
MeanBelow(limit) ==
  ValidChannels # {} /\ SetSum(ValidChannels) < limit * Cardinality(ValidChannels)
MeanIs(value) ==
  ValidChannels # {} /\ SetSum(ValidChannels) = value * Cardinality(ValidChannels)

Ticked == ev.op = "tick"
Handled == ev.op = "cmd"
HandledText == toUpperCase(trim(ev.line))
StateKept == Pre = ev.pre

----------------------------------------------------------------------------
(* C1 .. C10 *)

\* C1: on every sampling tick taken in mode AUTO with no valid channel the
\* valve is driven CLOSED (state CLOSED, pin LOW), whatever it was before.
C1_FailSafe ==
  (Ticked /\ g_mode = AUTO /\ ValidChannels = {})
    => (g_valve = CLOSED /\ valvePin = LOW)

C1_Witness ==
  /\ Ticked /\ g_mode = AUTO /\ ValidChannels = {}
  /\ ev.pre.valve = OPEN /\ ev.pre.pin = HIGH
  /\ g_valve = CLOSED /\ valvePin = LOW

\* C2 as stated: while the mode stays AUTO the valve goes from OPEN to CLOSED
\* only on a tick whose mean is below SETPOINT - HYSTERESIS, and from CLOSED
\* to OPEN only on a tick whose mean is above SETPOINT + HYSTERESIS, for every
\* sequence of readings, invalid ones included.
C2_AsStated ==
  (ev.pre.mode = AUTO /\ g_mode = AUTO /\ ev.pre.valve # g_valve)
    => /\ Ticked
       /\ (g_valve = CLOSED => MeanBelow(SETPOINT - HYSTERESIS))
       /\ (g_valve = OPEN => MeanAbove(SETPOINT + HYSTERESIS))

\* C2, amended: while the mode stays AUTO the valve goes from OPEN to CLOSED
\* only on a tick whose mean is below SETPOINT - HYSTERESIS or on which no
\* channel is valid, and from CLOSED to OPEN only on a tick whose mean is
\* above SETPOINT + HYSTERESIS.
C2_NoChatter ==
  (ev.pre.mode = AUTO /\ g_mode = AUTO /\ ev.pre.valve # g_valve)
    => /\ Ticked
       /\ (g_valve = CLOSED =>
             (MeanBelow(SETPOINT - HYSTERESIS) \/ ValidChannels = {}))
       /\ (g_valve = OPEN => MeanAbove(SETPOINT + HYSTERESIS))

C2_Witness ==
  /\ Ticked /\ ev.pre.mode = AUTO /\ ev.pre.valve = OPEN /\ g_valve = CLOSED
  /\ MeanBelow(SETPOINT - HYSTERESIS)

\* C3: on a tick in mode AUTO with a valid mean T, a CLOSED valve opens if and
\* only if T > SETPOINT + HYSTERESIS and an OPEN valve closes if and only if
\* T < SETPOINT - HYSTERESIS; otherwise the valve keeps its state, the two
\* thresholds themselves included.
C3_AutoRule ==
  (Ticked /\ g_mode = AUTO /\ ValidChannels # {})
    => /\ ev.pre.valve = CLOSED =>
            (g_valve = OPEN <=> MeanAbove(SETPOINT + HYSTERESIS))
       /\ ev.pre.valve = OPEN =>
            (g_valve = CLOSED <=> MeanBelow(SETPOINT - HYSTERESIS))
       /\ valvePin = (IF g_valve = OPEN THEN HIGH ELSE LOW)

C3_Witness ==
  /\ Ticked /\ g_mode = AUTO /\ ev.pre.valve = OPEN /\ g_valve = OPEN
  /\ MeanIs(SETPOINT - HYSTERESIS)

\* C4: the control variable of a tick is the mean of exactly the valid
\* channels: a channel counts if and only if it reports no fault and a finite
\* temperature within [TEMP_MIN, TEMP_MAX], the two limits being valid; the
\* other channels are left out of the sum and of the count, and are null in
\* the frame.
C4_MeanOfValid ==
  Ticked =>
    /\ \A i \in 1..NumTcs :
         /\ validReading(sensors[i]) =>
              /\ temps_out[i] = sensors[i].t
              /\ tx[1].temps[i] = [null |-> FALSE, v |-> sensors[i].t.v]
         /\ ~validReading(sensors[i]) =>
              /\ temps_out[i] = NAN
              /\ tx[1].temps[i].null
    /\ SumFinite(temps_out, NumTcs) =
         [sum |-> SetSum(ValidChannels), k |-> Cardinality(ValidChannels)]
    /\ (g_mode = AUTO /\ ValidChannels # {}) =>
         /\ ev.pre.valve = CLOSED =>
              (g_valve = OPEN <=> MeanAbove(SETPOINT + HYSTERESIS))
         /\ ev.pre.valve = OPEN =>
              (g_valve = CLOSED <=> MeanBelow(SETPOINT - HYSTERESIS))

C4_Witness ==
  /\ Ticked /\ g_mode = AUTO
  /\ Cardinality(ValidChannels) = 2 /\ MeanIs(SETPOINT)
  /\ \E i \in ValidChannels : sensors[i].t.v = SETPOINT + 10
  /\ \E i \in ValidChannels : sensors[i].t.v = SETPOINT - 10
  /\ g_valve = ev.pre.valve

C4_WitnessLimits ==
  /\ Ticked /\ g_mode = AUTO /\ ValidChannels = 1..NumTcs
  /\ \E i \in 1..NumTcs : sensors[i].t.v = TEMP_MIN
  /\ \E i \in 1..NumTcs : sensors[i].t.v = TEMP_MAX

\* C5: in FORCE_OPEN every tick leaves the valve OPEN and in FORCE_CLOSE every
\* tick leaves it CLOSED, whatever the temperatures, no valid channel
\* included; and the mode changes only when handleCommand gets a VALVE
\* command: no tick, pump command, poll or other step changes it.
C5_OverridePersists ==
  /\ (Ticked /\ g_mode = FORCE_OPEN) => (g_valve = OPEN /\ valvePin = HIGH)
  /\ (Ticked /\ g_mode = FORCE_CLOSE) => (g_valve = CLOSED /\ valvePin = LOW)
  /\ g_mode # ev.pre.mode =>
       (Handled /\ HandledText \in {S_VALVE_OPEN, S_VALVE_CLOSE, S_VALVE_AUTO})

C5_Witness ==
  /\ Ticked /\ g_mode = FORCE_OPEN /\ ValidChannels = {}
  /\ g_valve = OPEN /\ valvePin = HIGH

\* C6: a line that reads VALVE OPEN once trimmed and upper-cased sets the mode
\* to FORCE_OPEN and drives the valve OPEN while the line is handled, before
\* the loop leaves the parser; VALVE CLOSE likewise sets FORCE_CLOSE and
\* drives the valve CLOSED.
C6_ValveOpenClose ==
  /\ (Handled /\ HandledText = S_VALVE_OPEN) =>
       (g_mode = FORCE_OPEN /\ g_valve = OPEN /\ valvePin = HIGH /\ pc = "serial")
  /\ (Handled /\ HandledText = S_VALVE_CLOSE) =>
       (g_mode = FORCE_CLOSE /\ g_valve = CLOSED /\ valvePin = LOW /\ pc = "serial")

C6_Witness ==
  /\ Handled /\ HandledText = S_VALVE_OPEN /\ ev.line # S_VALVE_OPEN
  /\ toUpperCase(ev.line) # ev.line /\ trim(ev.line) # ev.line
  /\ ev.pre.mode = AUTO /\ ev.pre.valve = CLOSED
  /\ g_mode = FORCE_OPEN /\ g_valve = OPEN /\ valvePin = HIGH

\* C7: VALVE AUTO sets the mode to AUTO and leaves the valve state and the pin
\* as they were; a step that ends in mode AUTO with the valve changed is a
\* sampling tick that started in mode AUTO, and the change is the one the
\* AUTO rule or the fail-safe makes on that tick's readings.
C7_ValveAuto ==
  /\ (Handled /\ HandledText = S_VALVE_AUTO) =>
       (g_mode = AUTO /\ g_valve = ev.pre.valve /\ valvePin = ev.pre.pin)
  /\ (g_mode = AUTO /\ g_valve # ev.pre.valve) =>
       /\ Ticked /\ ev.pre.mode = AUTO
       /\ g_valve = OPEN => MeanAbove(SETPOINT + HYSTERESIS)
       /\ g_valve = CLOSED =>
            (MeanBelow(SETPOINT - HYSTERESIS) \/ ValidChannels = {})

C7_Witness ==
  /\ Handled /\ HandledText = S_VALVE_AUTO
  /\ ev.pre.mode = FORCE_OPEN /\ ev.pre.valve = OPEN
  /\ g_mode = AUTO /\ g_valve = OPEN /\ valvePin = HIGH

\* the text of a number: an optional sign, then digits with an optional
\* fraction, and nothing else
isNumberText(s) ==
  /\ s # <<>>
  /\ LET i == IF s[1] \in {"+", "-"} THEN 2 ELSE 1
         ni == digitRun(s, i)
         dot == charAt(s, i + ni) = "."
         nf == IF dot THEN digitRun(s, i + ni + 1) ELSE 0
     IN  /\ ni + nf > 0
         /\ i + ni + (IF dot THEN 1 + nf ELSE 0) = Len(s) + 1

\* PUMP <number>[%] or PUMP HZ <number>, in any letter case
isPumpCommand(cmd) ==
  /\ Len(cmd) > 5 /\ startsWith(toUpperCase(cmd), S_PUMP) /\ isspace(cmd[5])
  /\ LET rest == trim(substring(cmd, 4))
     IN  \/ isNumberText(IF endsWith(rest, S_PCT)
                         THEN SubSeq(rest, 1, Len(rest) - 1) ELSE rest)
         \/ /\ Len(rest) > 3 /\ startsWith(toUpperCase(rest), S_HZ)
            /\ isspace(rest[3])
            /\ isNumberText(trim(substring(rest, 2)))

isCommand(l) ==
  \/ toUpperCase(trim(l)) \in {S_VALVE_OPEN, S_VALVE_CLOSE, S_VALVE_AUTO}
  \/ isPumpCommand(trim(l))

\* C8: a line that is none of VALVE OPEN, VALVE CLOSE, VALVE AUTO,
\* PUMP <number>[%] and PUMP HZ <number> changes neither the mode, the valve
\* nor the pump command; a PUMP line with its value missing or not a number,
\* and a word that only begins with PUMP, are such lines.
C8_MalformedIgnored ==
  (Handled /\ ~isCommand(ev.line)) => StateKept

\* C9 as stated: handling a command line writes nothing to Serial, and the
\* only lines written after boot are telemetry frames.
C9_AsStated ==
  /\ Handled => tx = <<>>
  /\ ev.op # "setup" => \A i \in 1..Len(tx) : tx[i].type = "telemetry"

\* C9, amended: handling a line that does not begin with PUMP writes nothing;
\* a line that begins with PUMP writes at most one line, the comment that
\* reports the percent applied, and writes it exactly when the pump command
\* is set; every other line written after boot is the one telemetry frame
\* of a sampling tick.
C9_OnlyPumpAcknowledged ==
  /\ (Handled /\ ~startsWith(HandledText, S_PUMP)) => tx = <<>>
  /\ (Handled /\ tx # <<>>) =>
       /\ Len(tx) = 1 /\ tx[1].type = "comment"
       /\ tx[1].text = "# Pump cmd set to" /\ tx[1].applied = g_pump_cmd_pct
  /\ (Handled /\ tx = <<>>) => StateKept \/ ~startsWith(HandledText, S_PUMP)
  /\ Ticked => (Len(tx) = 1 /\ tx[1].type = "telemetry")
  /\ ev.op \notin {"cmd", "tick", "setup"} => tx = <<>>

C9_Witness ==
  /\ Handled /\ isPumpCommand(trim(ev.line))
  /\ Len(tx) = 1 /\ tx[1].type = "comment"
  /\ g_pump_cmd_pct # ev.pre.pct /\ tx[1].applied = g_pump_cmd_pct

\* C10: once more than LINE_CAP bytes have come in since the last line-end,
\* nothing of that line is executed: the line-end that closes it changes no
\* state and writes nothing.
C10_OverlongDiscarded ==
  (ev.op \in {"cmd", "eol"} /\ ev.raw > LINE_CAP) => (StateKept /\ tx = <<>>)

----------------------------------------------------------------------------
(* C11 .. C20 *)

\* the value of a number text, in thousandths (up to three fraction digits)
numberValue(s) ==
  LET i == IF s[1] \in {"+", "-"} THEN 2 ELSE 1
      ni == digitRun(s, i)
      nf == IF charAt(s, i + ni) = "." THEN digitRun(s, i + ni + 1) ELSE 0
  IN  (IF s[1] = "-" THEN -1 ELSE 1) *
        (DecVal(s, i, ni) * 1000 + DecVal(s, i + ni + 1, nf) * Pow10(3 - nf))

\* a handled PUMP command is in hertz
pumpInHz(cmd) == startsWith(toUpperCase(trim(substring(cmd, 4))), S_HZ)

\* the number a handled PUMP command carries, in thousandths
pumpValue(cmd) ==
  LET rest == trim(substring(cmd, 4))
  IN  IF pumpInHz(cmd) THEN numberValue(trim(substring(rest, 2)))
      ELSE numberValue(IF endsWith(rest, S_PCT)
                       THEN SubSeq(rest, 1, Len(rest) - 1) ELSE rest)

clampPct(x) ==
  IF x < 0 THEN 0 ELSE IF x > PUMP_CMD_MAX_PCT THEN PUMP_CMD_MAX_PCT ELSE x

\* the compare value for a percent p (thousandths): floor(p / 100 * 999 + 0.5)
dutyOf(p) == (p * PWM_TOP + 50000) \div 100000

\* C11: a PUMP v or PUMP v% command with a number v leaves the pump command
\* at clamp(v, 0, 100); PUMP HZ v leaves it at clamp(v / 71.7 * 100, 0, 100),
\* to the nearest thousandth of a percent; and the same step leaves OCR4A at
\* the compare value of the new percent.
C11_PumpSetsPercent ==
  (Handled /\ isPumpCommand(trim(ev.line))) =>
    LET v == pumpValue(trim(ev.line))
    IN  /\ ~pumpInHz(trim(ev.line)) => g_pump_cmd_pct = clampPct(v)
        /\ pumpInHz(trim(ev.line)) =>
             IF v * 1000 >= PUMP_CMD_MAX_PCT * PUMP_MAX_FREQ_HZ
             THEN g_pump_cmd_pct = PUMP_CMD_MAX_PCT
             ELSE IF v <= 0 THEN g_pump_cmd_pct = 0
             ELSE /\ 2 * (g_pump_cmd_pct * PUMP_MAX_FREQ_HZ - v * 1000) <= PUMP_MAX_FREQ_HZ
                  /\ 2 * (v * 1000 - g_pump_cmd_pct * PUMP_MAX_FREQ_HZ) <= PUMP_MAX_FREQ_HZ
        /\ OCR4A = dutyOf(g_pump_cmd_pct)

C11_Witness ==
  /\ Handled /\ isPumpCommand(trim(ev.line)) /\ pumpInHz(trim(ev.line))
  /\ pumpValue(trim(ev.line)) = 35850
  /\ ev.pre.pct # 50000 /\ g_pump_cmd_pct = 50000 /\ OCR4A = 500

Called(f) == ev.op = f

\* C12: setPumpCommandPct called again with the same request leaves the state
\* of the first call, and so does a call with the percent it stored; of two
\* requests the lesser never gets the greater duty or stored percent; a request
\* above 100 leaves exactly what 100 leaves (100 %, compare value PWM_TOP) and
\* a request below 0 exactly what 0 leaves (0 %, compare value 0).
C12_IdempotentMonotonic ==
  Called("setPumpCommandPct") =>
    /\ ev.arg = ev.prevArg => Pre = ev.pre
    /\ setPumpCommandPct(Num(g_pump_cmd_pct)) =
         [pct |-> g_pump_cmd_pct, ocr |-> OCR4A]
    /\ ev.prevArg.v <= ev.arg.v =>
         (ev.pre.ocr <= OCR4A /\ ev.pre.pct <= g_pump_cmd_pct)
    /\ ev.prevArg.v >= ev.arg.v =>
         (ev.pre.ocr >= OCR4A /\ ev.pre.pct >= g_pump_cmd_pct)
    /\ ev.arg.v > 100000 => (g_pump_cmd_pct = 100000 /\ OCR4A = PWM_TOP)
    /\ ev.arg.v = 100000 => (g_pump_cmd_pct = 100000 /\ OCR4A = PWM_TOP)
    /\ ev.arg.v <= 0 => (g_pump_cmd_pct = 0 /\ OCR4A = 0)
    /\ OCR4A \in 0..PWM_TOP

C12_Witness ==
  /\ Called("setPumpCommandPct")
  /\ ev.arg.v > 100000 /\ ev.prevArg = ev.arg
  /\ ev.pre.pct = 100000 /\ ev.pre.ocr = PWM_TOP
  /\ g_pump_cmd_pct = 100000 /\ OCR4A = PWM_TOP

\* C13: the mode registers TCCR4A and TCCR4B and the period register ICR4
\* hold what setup wrote (ICR4 = 999) in every state, whatever commands, ticks
\* and polls have run; and handling a PUMP line changes nothing but the
\* stored percent and OCR4A.
C13_TimerSetupOnly ==
  /\ timer4 = [TCCR4A |-> {"COM4A1", "WGM41"},
               TCCR4B |-> {"WGM43", "WGM42", "CS41"}, ICR4 |-> 999]
  /\ (Handled /\ startsWith(HandledText, S_PUMP)) =>
       /\ g_mode = ev.pre.mode /\ g_valve = ev.pre.valve
       /\ valvePin = ev.pre.pin /\ g_vfd = ev.vfd

C13_Witness ==
  /\ Handled /\ startsWith(HandledText, S_PUMP)
  /\ OCR4A # ev.pre.ocr /\ g_pump_cmd_pct # ev.pre.pct
  /\ timer4.ICR4 = 999 /\ lastSample # U32(0) /\ g_vfd.valid

\* C14: setDuty leaves in OCR4A floor(f * 999 + 0.5) for the fraction f
\* clamped to [0, 1]: 0 for 0, 999 for 1, never less for a greater fraction,
\* and always within 0..999, also for a fraction that is not finite.
C14_DutyMapping ==
  Called("setDuty") =>
    /\ OCR4A \in 0..999
    /\ isfinite(ev.arg) =>
         LET f == IF ev.arg.v < 0 THEN 0
                  ELSE IF ev.arg.v > 100000 THEN 100000 ELSE ev.arg.v
         IN  OCR4A = (f * 999 + 50000) \div 100000
    /\ ev.arg = Num(0) => OCR4A = 0
    /\ ev.arg = Num(100000) => OCR4A = 999
    /\ (isfinite(ev.arg) /\ isfinite(ev.prevArg) /\ ev.prevArg.v <= ev.arg.v) =>
         ev.pre.ocr <= OCR4A

C14_Witness ==
  /\ Called("setDuty")
  /\ ev.prevArg = Num(99949) /\ ev.pre.ocr = 998
  /\ ev.arg = Num(99950) /\ OCR4A = 999

\* a reply buffer that passes: 13 bytes, the CRC16 of the first 11 in bytes
\* 12 and 13 (low byte first), address 1, function 3, byte count 8
replyAccepted(b) ==
  /\ Len(b) = 13
  /\ modbusCRC(b, 11) = b[12] + 256 * b[13]
  /\ b[1] = 1 /\ b[2] = 3 /\ b[3] = 8

Polled == ev.op = "poll"

\* C15: when a poll ends with a reply buffer that does not pass (too short,
\* CRC, address or function, byte count), the snapshot is invalid and its
\* four numbers are NaN, whatever an earlier poll had decoded.
C15_FailedPollClears ==
  (Polled /\ ~replyAccepted(bus.buf)) =>
    /\ g_vfd.valid = FALSE
    /\ g_vfd.freqHz = NAN /\ g_vfd.inputPowerPct = NAN
    /\ g_vfd.outputCurrentPct = NAN /\ g_vfd.outputVoltageV = NAN

C15_Witness ==
  /\ Polled /\ ~replyAccepted(bus.buf)
  /\ ev.vfd.valid /\ ev.vfd.freqHz = Num(35850)
  /\ Len(bus.buf) = 13 /\ ~crcOk(bus.buf, 13)
  /\ g_vfd.valid = FALSE /\ g_vfd.freqHz = NAN

\* C16: the frame of a sampling tick carries the VFD fields if and only if
\* a poll has run and the reply buffer of the latest one passed; they are
\* left out before the first poll and after a failed one.
C16_VfdFieldsIff ==
  Ticked =>
    (tx[1].vfd # <<>> <=> (bus.sent > 0 /\ replyAccepted(bus.buf)))

C16_Witness ==
  /\ Ticked /\ bus.sent = 1
  /\ Len(bus.buf) > 0 /\ Len(bus.buf) < 13
  /\ tx[1].vfd = <<>>

\* C17: a poll leaves the snapshot valid if and only if its reply buffer
\* passes: 13 bytes received, the CRC of the first 11 in bytes 12 and 13,
\* address 1, function 3 and byte count 8.
C17_AcceptIff ==
  Polled => (g_vfd.valid <=> replyAccepted(bus.buf))

C17_Witness ==
  /\ Polled /\ replyAccepted(bus.buf) /\ g_vfd.valid
  /\ bus.buf = <<1, 3, 8, 14, 1, 4, 176, 9, 196, 8, 252>> \o SubSeq(bus.buf, 12, 13)
  /\ g_vfd.freqHz = Num(35850) /\ g_vfd.outputVoltageV = Num(230000)

\* the four ways to fail, each with everything checked before it in order
C17_WitnessShort == Polled /\ Len(bus.buf) = 5 /\ ~g_vfd.valid
C17_WitnessCrc ==
  Polled /\ Len(bus.buf) = 13 /\ ~crcOk(bus.buf, 13) /\ ~g_vfd.valid
C17_WitnessAddress ==
  Polled /\ Len(bus.buf) = 13 /\ crcOk(bus.buf, 13) /\ bus.buf[1] = 2
         /\ ~g_vfd.valid
C17_WitnessFunction ==
  Polled /\ Len(bus.buf) = 13 /\ crcOk(bus.buf, 13) /\ bus.buf[2] = 131
         /\ ~g_vfd.valid
C17_WitnessByteCount ==
  Polled /\ Len(bus.buf) = 13 /\ crcOk(bus.buf, 13) /\ bus.buf[1] = 1
         /\ bus.buf[2] = 3 /\ bus.buf[3] = 6 /\ ~g_vfd.valid

\* C18: a frame made of any byte sequence followed by its modbusCRC, low
\* byte first, passes the CRC test of the receive path; the same frame with
\* any one bit inverted, in the payload or in the CRC bytes, does not.
C18_CrcSelfConsistent ==
  Called("crc") =>
    /\ ev.frame = flipBit(ev.payload \o <<modbusCRC(ev.payload, Len(ev.payload)) % 256,
                                          modbusCRC(ev.payload, Len(ev.payload)) \div 256>>,
                          ev.bit)
    /\ ev.bit = 0 => ev.ok
    /\ ev.bit > 0 => ~ev.ok

\* bit 7 of the high CRC byte of a reply inverted: the frame is refused
C18_Witness ==
  /\ Called("crc")
  /\ ev.payload = <<1, 3, 8, 14, 1, 4, 176, 9, 196, 8, 252>>
  /\ ev.bit = 8 * 13
  /\ ev.frame # withCrc(ev.payload)
  /\ SubSeq(ev.frame, 1, 12) = SubSeq(withCrc(ev.payload), 1, 12)
  /\ ~ev.ok

C18_WitnessIntact ==
  /\ Called("crc") /\ ev.payload = <<>> /\ ev.bit = 0
  /\ ev.frame = <<255, 255>> /\ ev.ok

\* C19: whenever a request is on the wire to the VFD it is the 8 bytes
\* 01 03 08 09 00 04 followed by the modbusCRC of those six, low byte and
\* then high byte; and every send step puts one on the wire.
C19_RequestFrame ==
  /\ Called("request") => vfdTx # <<>>
  /\ vfdTx # <<>> =>
       /\ Len(vfdTx) = 8
       /\ SubSeq(vfdTx, 1, 6) = <<1, 3, 8, 9, 0, 4>>
       /\ vfdTx[7] = modbusCRC(<<1, 3, 8, 9, 0, 4>>, 6) % 256
       /\ vfdTx[8] = modbusCRC(<<1, 3, 8, 9, 0, 4>>, 6) \div 256

C19_Witness ==
  /\ Called("request") /\ bus.sent = 1
  /\ vfdTx = <<1, 3, 8, 9, 0, 4, 150, 107>>

\* the steps of a poll in the order of the source, as far as they have gone
stepsInOrder ==
  bus.steps \in {<<>>, <<"flush">>, <<"flush", "send">>,
                 <<"flush", "send", "reply">>}

\* a request goes out only in the send step of a poll that was due at this
\* pass of loop(), and a finished poll has sent exactly one
oneRequestPerPoll ==
  /\ bus.sent <= 1
  /\ vfdTx # <<>> => (Called("request") /\ pc = "vfd_wait" /\ lastVfdPoll = now)
  /\ Polled => (bus.sent = 1 /\ bus.steps = <<"flush", "send", "reply">>)

\* C20 as stated: flush, send, accumulate in this order; no byte that was in
\* the receive buffer before the request went out is in the reply buffer;
\* one request per poll, failed or not, and none between polls.
C20_AsStated ==
  /\ stepsInOrder
  /\ oneRequestPerPoll
  /\ Polled => bus.buf = received(bus.arrived)

\* C20: flush, send, accumulate in this order; no byte that was in the
\* receive buffer when the flush ran is in the reply buffer, which holds the
\* bytes that came in behind the flush followed by those of the reply
\* window; one request per poll, failed or not, and none between polls.
C20_FlushSendAccumulate ==
  /\ stepsInOrder
  /\ oneRequestPerPoll
  /\ Polled => bus.buf = received(bus.late \o bus.arrived)

\* a failed poll over a line that had a stale byte on it: the byte was
\* flushed, one request went out, the short reply is all the buffer holds
C20_Witness ==
  /\ Polled /\ bus.flushed = <<255>> /\ bus.late = <<>>
  /\ bus.sent = 1 /\ bus.steps = <<"flush", "send", "reply">>
  /\ Len(bus.arrived) = 5 /\ bus.buf = bus.arrived
  /\ ~g_vfd.valid

\* a byte that came in between the flush and the request heads the buffer
C20_WitnessLate ==
  /\ Polled /\ bus.late = <<255>> /\ bus.pending = <<255>>
  /\ Len(bus.arrived) = 13 /\ bus.buf[1] = 255
  /\ SubSeq(bus.buf, 2, 13) = SubSeq(bus.arrived, 1, 12)

----------------------------------------------------------------------------
(* C21 .. C30 *)

\* milliseconds on the clock since the reply loop took `start`
waited == Sub32(clk, wait.start)

\* C21: the reply loop never holds more than 13 bytes and never runs with
\* 200 ms or more on the clock since its start; it is left with 13 bytes in
\* the buffer or at 200 ms exactly; and, the millisecond tick advancing,
\* every wait for a reply ends, whatever the link delivers.
C21_BoundedWait ==
  /\ [](/\ Len(wait.buf) <= EXPECTED_LEN
        /\ wait.on => ~Ge32(waited, VFD_TIMEOUT_MS + 1)
        /\ (Polled /\ Len(wait.buf) < EXPECTED_LEN) => waited = U32(VFD_TIMEOUT_MS)
        /\ Polled => bus.buf = wait.buf)
  /\ (pc = "vfd_wait") ~> (Polled /\ pc = "sample")

\* a partial reply: five bytes, then silence until the deadline
C21_Witness ==
  /\ Polled /\ Len(wait.buf) = 5 /\ bus.arrived = wait.buf
  /\ waited = U32(VFD_TIMEOUT_MS) /\ ~g_vfd.valid

\* a silent link
C21_WitnessSilent ==
  Polled /\ wait.buf = <<>> /\ bus.arrived = <<>> /\ waited = U32(VFD_TIMEOUT_MS)

\* a link that never stops sending: left at once with 13 bytes, more waiting
C21_WitnessStream ==
  /\ Polled /\ Len(wait.buf) = EXPECTED_LEN /\ waited = U32(0)
  /\ Len(vfdRx) = 2 /\ Len(bus.arrived) = EXPECTED_LEN + 2

\* the telemetry frames among the lines the last step wrote to Serial
Frames == {i \in 1..Len(tx) : tx[i].type = "telemetry"}

\* C22: a step writes a telemetry frame if and only if it is a sampling
\* tick, and a tick writes exactly one: command handling (which may print an
\* acknowledgement), a poll and a pass of loop() with no tick due write none.
C22_OneFramePerTick ==
  /\ Ticked => (Cardinality(Frames) = 1 /\ Len(tx) = 1)
  /\ ~Ticked => Frames = {}

C22_Witness ==
  /\ Ticked /\ Frames = {1} /\ tx[1].t = lastSample
  /\ g_pump_cmd_pct = 50000 /\ tx[1].cmd_pct = 50000

\* a command that prints, a poll, and a pass without a tick: no frame
C22_WitnessCommand == Handled /\ Len(tx) = 1 /\ Frames = {}
C22_WitnessPoll == Polled /\ g_vfd.valid /\ Frames = {}
C22_WitnessNoTick == Called("notick") /\ lastSample # U32(0) /\ Frames = {}


\* C23: no sensor fault, invalid reading, failed poll or command stops the
\* loop: the program is always at one of the positions of loop(), and
\* whenever a second has passed since the last sample a tick follows, with
\* its telemetry frame
TickDue == Ge32(Sub32(clk, lastSample), SAMPLE_INTERVAL_MS)

C24_TempsPerChannel ==
  Ticked =>
    /\ DOMAIN tx[1].temps = 1..NumTcs
    /\ \A i \in 1..NumTcs :
         /\ ~tx[1].temps[i].null <=> validReading(sensors[i])
         /\ validReading(sensors[i]) => tx[1].temps[i].v = sensors[i].t.v

\* a frame with a number, then a null for a faulted channel, then a null for
\* a reading above the range
C24_Witness ==
  /\ Ticked
  /\ sensors[1] = Rd(TEMP_MAX) /\ tx[1].temps[1] = [null |-> FALSE, v |-> TEMP_MAX]
  /\ sensors[2].f # 0 /\ tx[1].temps[2].null
  /\ sensors[3] = Rd(TEMP_MAX + 1) /\ tx[1].temps[3].null

\* a frame whose entries are all null: the chips return NaN
C24_WitnessAllNull ==
  /\ Ticked
  /\ \A i \in 1..NumTcs : sensors[i].t = NAN /\ tx[1].temps[i].null


\* C25: a tick reads the sensors, then updates the valve, then prints the
\* frame: the frame carries the valve as the control update of this tick
\* left it (1 for OPEN, 0 for CLOSED), decided from the readings of this
\* tick, and the letter of the mode (A, O, C)
frameValve == IF tx[1].valve = 1 THEN OPEN ELSE CLOSED

C25_ReadControlEmit ==
  Ticked =>
    /\ tx[1].valve \in {0, 1} /\ frameValve = g_valve
    /\ tx[1].mode = (CASE g_mode = AUTO -> "A"
                        [] g_mode = FORCE_OPEN -> "O"
                        [] g_mode = FORCE_CLOSE -> "C")
    /\ g_mode = FORCE_OPEN => frameValve = OPEN
    /\ g_mode = FORCE_CLOSE => frameValve = CLOSED
    /\ (g_mode = AUTO /\ ValidChannels = {}) => frameValve = CLOSED
    /\ (g_mode = AUTO /\ ev.pre.valve = CLOSED /\ ValidChannels # {}) =>
         (frameValve = OPEN <=> MeanAbove(SETPOINT + HYSTERESIS))
    /\ (g_mode = AUTO /\ ev.pre.valve = OPEN /\ ValidChannels # {}) =>
         (frameValve = CLOSED <=> MeanBelow(SETPOINT - HYSTERESIS))
    /\ \A i \in ValidChannels : tx[1].temps[i].v = sensors[i].t.v

\* the tick on which the valve opens reports it open, with the readings
\* that opened it
C25_Witness ==
  /\ Ticked /\ g_mode = AUTO /\ ev.pre.valve = CLOSED
  /\ MeanAbove(SETPOINT + HYSTERESIS)
  /\ tx[1].valve = 1 /\ tx[1].mode = "A"
  /\ \A i \in 1..NumTcs : tx[1].temps[i] = [null |-> FALSE, v |-> sensors[i].t.v]

\* the tick on which the last channel fails reports the valve closed
C25_WitnessFailSafe ==
  /\ Ticked /\ g_mode = AUTO /\ ev.pre.valve = OPEN /\ ValidChannels = {}
  /\ tx[1].valve = 0

\* a tick in FORCE_CLOSE reports C
C25_WitnessForce ==
  /\ Ticked /\ g_mode = FORCE_CLOSE /\ tx[1].mode = "C" /\ tx[1].valve = 0


\* C26: the pin is HIGH exactly when the valve is OPEN; a step that leaves
\* the valve state leaves the level of the pin, whatever it does to the
\* mode; and the applyValve() of a tick in FORCE_OPEN or FORCE_CLOSE, or of
\* a fail-safe tick with the valve already CLOSED, writes the level the pin
\* has
pinOf(valve) == IF valve = OPEN THEN HIGH ELSE LOW

C26_PinFollowsValve ==
  /\ valvePin = pinOf(g_valve)
  /\ ev.pre.pin = pinOf(ev.pre.valve)
  /\ g_valve = ev.pre.valve => valvePin = ev.pre.pin
  /\ (Ticked /\ g_mode \in {FORCE_OPEN, FORCE_CLOSE}) =>
        (g_valve = ev.pre.valve /\ valvePin = ev.pre.pin)
  /\ (Ticked /\ g_mode = AUTO /\ ValidChannels = {} /\ ev.pre.valve = CLOSED) =>
        (g_valve = CLOSED /\ valvePin = LOW /\ ev.pre.pin = LOW)

\* a second tick in FORCE_OPEN, with readings that would close the valve
\* in AUTO: the pin was HIGH and stays HIGH
C26_Witness ==
  /\ Ticked /\ g_mode = FORCE_OPEN /\ lastSample = U32(2 * SAMPLE_INTERVAL_MS)
  /\ MeanBelow(SETPOINT - HYSTERESIS)
  /\ ev.pre.pin = HIGH /\ valvePin = HIGH

\* VALVE AUTO with the valve open: the mode changes, the pin does not
C26_WitnessModeAlone ==
  /\ Handled /\ ev.pre.mode = FORCE_OPEN /\ g_mode = AUTO
  /\ ev.pre.pin = HIGH /\ valvePin = HIGH

\* a fail-safe tick with the valve already closed
C26_WitnessFailSafe ==
  /\ Ticked /\ g_mode = AUTO /\ ValidChannels = {} /\ ev.pre.valve = CLOSED
  /\ valvePin = LOW


\* no command has been handled and no tick taken since setup()
BeforeCommandOrTick == ev.boot

\* C27 as stated: after setup and before any command or tick the valve is
\* CLOSED with the pin LOW, the mode is AUTO, the pump command is 0 % with
\* compare value 0, and the VFD snapshot is invalid
C27_AsStated ==
  BeforeCommandOrTick =>
    /\ g_valve = CLOSED /\ valvePin = LOW /\ g_mode = AUTO
    /\ g_pump_cmd_pct = 0 /\ OCR4A = 0
    /\ ~g_vfd.valid

\* C27: after setup and before any command or tick the valve is CLOSED with
\* the pin LOW, the mode is AUTO and the pump command is 0 % with compare
\* value 0; the VFD snapshot is invalid, with no values, until the first
\* poll, which runs in the loop iteration of the first tick, before the
\* tick, and it is valid from then on if the drive answered
C27_BootState ==
  BeforeCommandOrTick =>
    /\ g_valve = CLOSED /\ valvePin = LOW /\ g_mode = AUTO
    /\ g_pump_cmd_pct = 0 /\ OCR4A = 0
    /\ g_vfd.lastPollMs = U32(0) => g_vfd = BootSnapshot
    /\ g_vfd.valid =>
         (Ge32(lastVfdPoll, VFD_POLL_MS) /\ Ge32(g_vfd.lastPollMs, VFD_POLL_MS))
    /\ ~Ge32(clk, VFD_POLL_MS) => (g_vfd = BootSnapshot /\ lastVfdPoll = U32(0))

\* loop() has run for a second and is about to start its first poll:
\* everything is as setup() left it
C27_Witness ==
  /\ BeforeCommandOrTick /\ pc = "poll" /\ now = U32(VFD_POLL_MS)
  /\ lastVfdPoll = U32(0)
  /\ g_valve = CLOSED /\ valvePin = LOW /\ g_mode = AUTO
  /\ g_pump_cmd_pct = 0 /\ OCR4A = 0 /\ g_vfd = BootSnapshot

\* the first poll has been answered and the first tick is still to come:
\* the snapshot is valid and no command or tick has happened
C27_WitnessPolled ==
  /\ BeforeCommandOrTick /\ Polled /\ pc = "sample"
  /\ lastVfdPoll = U32(VFD_POLL_MS) /\ lastSample = U32(0) /\ g_vfd.valid


\* C28: in the two-channel program the valve changes only on a tick on
\* which at least 15000 ms have passed since the last change (since boot,
\* for the first), and the time of the change is kept; a tick inside the
\* hold interval leaves the valve whatever the mean is
HoldTicked == ev.op = "holdtick"
sinceLastChange == Sub32(now, ev.last)
valveChanged == g_valve # ev.pre.valve

C28_MinimumHold ==
  /\ valveChanged =>
        /\ HoldTicked
        /\ Ge32(sinceLastChange, MIN_VALVE_INTERVAL)
        /\ lastValveChange = now
  /\ ~valveChanged => lastValveChange = ev.last
  /\ (HoldTicked /\ ~Ge32(sinceLastChange, MIN_VALVE_INTERVAL)) => ~valveChanged
  /\ valvePin = pinOf(g_valve)

\* the valve opened at 15 s and closes at 30 s, the first tick on which it
\* may
C28_Witness ==
  /\ HoldTicked /\ valveChanged /\ g_valve = CLOSED
  /\ ev.last = U32(MIN_VALVE_INTERVAL) /\ now = U32(2 * MIN_VALVE_INTERVAL)

\* one second short of the hold time with the mean below the lower
\* threshold: the valve stays open
C28_WitnessHeld ==
  /\ HoldTicked /\ ev.pre.valve = OPEN /\ g_valve = OPEN
  /\ sinceLastChange = U32(MIN_VALVE_INTERVAL - HOLD_SAMPLE_MS)
  /\ sensors[1] = Rd(220) /\ sensors[2] = Rd(220)

\* C29: in the two-channel program, at the end of a tick on which neither
\* channel gave a valid reading the valve is CLOSED
C29_FailSafeTwoChannel ==
  (HoldTicked /\ isnan(temps_out[1]) /\ isnan(temps_out[2])) => g_valve = CLOSED


\* a poll ran in the iteration that read `now`
PollRan == lastVfdPoll = now /\ Ge32(now, VFD_POLL_MS)
\* the time from the start of the iteration to the tick
tickDelay == Sub32(clk, now)
\* the iteration is over and it left no due tick behind
NoTickSkipped ==
  pc = "serial" => ~Ge32(Sub32(now, lastSample), SAMPLE_INTERVAL_MS)

\* C30 as stated: a tick due at the start of an iteration in which a poll
\* runs is taken in that iteration, after the poll, and the poll delays it
\* by at most the 200 ms of the transaction timeout
C30_AsStated ==
  /\ NoTickSkipped
  /\ Polled => pc = "sample"
  /\ (Ticked /\ PollRan) =>
        /\ lastSample = now /\ g_vfd.lastPollMs = clk
        /\ ~Ge32(tickDelay, VFD_TIMEOUT_MS + 1)

\* C30: a tick due at the start of an iteration in which a poll runs is
\* taken in that iteration, after the poll; the poll delays it by at most
\* the time the request takes to go out plus the 200 ms of the timeout
C30_PollDelaysTick ==
  /\ NoTickSkipped
  /\ Polled => pc = "sample"
  /\ (Ticked /\ PollRan) =>
        /\ lastSample = now /\ g_vfd.lastPollMs = clk
        /\ ~Ge32(tickDelay, REQUEST_MS + VFD_TIMEOUT_MS + 1)

\* the drive stays silent: the tick of the same iteration comes 209 ms
\* after the iteration began, stamped with the time it began
C30_Witness ==
  /\ Ticked /\ PollRan /\ ~g_vfd.valid /\ bus.buf = <<>>
  /\ tickDelay = U32(REQUEST_MS + VFD_TIMEOUT_MS)
  /\ tx[1].t = now /\ tx[1].poll_ms = clk

\* the drive answers: the tick comes after the request and the reply
C30_WitnessAnswered ==
  /\ Ticked /\ PollRan /\ g_vfd.valid
  /\ tickDelay = U32(REQUEST_MS + REPLY_MS)


\* the valid flag and the four numbers of a snapshot
statusOf(snap) ==
  <<snap.valid, snap.freqHz, snap.inputPowerPct, snap.outputCurrentPct,
    snap.outputVoltageV>>

\* C31 as stated: the snapshot holds the values of the last poll that
\* succeeded until the next poll that succeeds: a step that is not a
\* successful poll leaves the flag and the four numbers
C31_AsStated ==
  ~(Polled /\ replyAccepted(bus.buf)) => statusOf(g_vfd) = statusOf(ev.vfd)

\* C31: the snapshot holds the outcome of the latest poll until the next
\* poll: between polls the flag and the numbers stay; a poll that succeeds
\* makes it valid; a poll that fails makes it invalid with no numbers, so
\* the values of an earlier success do not outlive a failed poll
C31_HeldUntilNextPoll ==
  /\ ~Polled => g_vfd = ev.vfd
  /\ (Polled /\ replyAccepted(bus.buf)) =>
        (g_vfd.valid /\ \A k \in 2..5 : isfinite(statusOf(g_vfd)[k]))
  /\ (Polled /\ ~replyAccepted(bus.buf)) =>
        statusOf(g_vfd) = <<FALSE, NAN, NAN, NAN, NAN>>
  /\ g_vfd.valid =>
        (replyAccepted(bus.buf) \/ pc \in {"vfd_flush", "vfd_send", "vfd_wait"})

\* a poll fails after one that succeeded: the values are gone
C31_Witness ==
  /\ Polled /\ ~replyAccepted(bus.buf) /\ bus.buf = <<>>
  /\ ev.vfd.valid /\ ev.vfd.outputVoltageV = Num(230000)
  /\ statusOf(g_vfd) = <<FALSE, NAN, NAN, NAN, NAN>>

\* the tick after a successful poll prints the values the poll left
C31_WitnessHeld ==
  /\ Ticked /\ g_vfd.valid /\ g_vfd = ev.vfd
  /\ tx[1].vfd = <<35850, 12000, 25000, 230000>>

\* register i (from 0) of the reply buffer: bytes 3 + 2i and 4 + 2i counted
\* from 0, high byte first
replyRegister(i) == 256 * bus.buf[4 + 2 * i] + bus.buf[5 + 2 * i]

\* C32: after a poll that succeeds, with register i the unsigned 16-bit
\* value of reply bytes 3 + 2i (high) and 4 + 2i (low), freqHz is
\* register 0 / 100, inputPowerPct register 1 / 100, outputCurrentPct
\* register 2 / 100 and outputVoltageV register 3 / 10
C32_DecodeAndScale ==
  (Polled /\ replyAccepted(bus.buf)) =>
    /\ \A i \in 0..(N_M_REG - 1) : replyRegister(i) \in 0..65535
    /\ isfinite(g_vfd.freqHz) /\ isfinite(g_vfd.inputPowerPct)
    /\ isfinite(g_vfd.outputCurrentPct) /\ isfinite(g_vfd.outputVoltageV)
    /\ 100 * g_vfd.freqHz.v = MILLI * replyRegister(0)
    /\ 100 * g_vfd.inputPowerPct.v = MILLI * replyRegister(1)
    /\ 100 * g_vfd.outputCurrentPct.v = MILLI * replyRegister(2)
    /\ 10 * g_vfd.outputVoltageV.v = MILLI * replyRegister(3)

\* reply bytes FF FF, 80 00, 01 02, 00 01: 655.35 Hz, 327.68 %, 2.58 %,
\* 0.1 V
C32_Witness ==
  /\ Polled /\ replyAccepted(bus.buf)
  /\ SubSeq(bus.buf, 4, 11) = <<255, 255, 128, 0, 1, 2, 0, 1>>
  /\ g_vfd.freqHz = Num(655350) /\ g_vfd.inputPowerPct = Num(327680)
  /\ g_vfd.outputCurrentPct = Num(2580) /\ g_vfd.outputVoltageV = Num(100)


\* C34: in every state, in the state each step started from and in every
\* frame, FORCE_OPEN goes with an OPEN valve and FORCE_CLOSE with a CLOSED
\* one
forcedValve(mode, valve) ==
  /\ mode = FORCE_OPEN => valve = OPEN
  /\ mode = FORCE_CLOSE => valve = CLOSED

C34_ModeValveConsistent ==
  /\ forcedValve(g_mode, g_valve)
  /\ forcedValve(ev.pre.mode, ev.pre.valve)
  /\ Ticked =>
        /\ tx[1].mode = "O" => tx[1].valve = 1
        /\ tx[1].mode = "C" => tx[1].valve = 0

\* VALVE OPEN handled while the mode was FORCE_CLOSE: mode and valve change
\* in the one step
C34_Witness ==
  /\ Handled /\ ev.pre.mode = FORCE_CLOSE /\ ev.pre.valve = CLOSED
  /\ g_mode = FORCE_OPEN /\ g_valve = OPEN /\ valvePin = HIGH

\* a frame in FORCE_OPEN from a tick whose readings are all faulted
C34_WitnessFrame ==
  /\ Ticked /\ ValidChannels = {} /\ tx[1].mode = "O" /\ tx[1].valve = 1


\* C35: a tick is taken only when at least 1000 ms lie between the time
\* the iteration read and the time of the tick before, the difference
\* taken modulo 2^32; when it is taken its time becomes the new reference;
\* an iteration that takes none has seen less than 1000 ms, and none ends
\* with a tick still due; across the wrap of the counter as before it
sincePrevTick == Sub32(now, ev.sample)

C35_Cadence ==
  /\ Ticked =>
        /\ lastSample = now /\ tx[1].t = now
        /\ sincePrevTick.hi = 0 /\ sincePrevTick.lo >= SAMPLE_INTERVAL_MS
  /\ Called("notick") =>
        (ev.sample = lastSample /\ sincePrevTick.hi = 0
         /\ sincePrevTick.lo < SAMPLE_INTERVAL_MS)
  /\ ~Ticked => lastSample = ev.sample
  /\ NoTickSkipped

\* a tick 1000 ms after the one before, the counter having wrapped between
\* them
C35_Witness ==
  /\ Ticked /\ ev.sample.hi = WORD - 1 /\ now.hi = 0
  /\ sincePrevTick = U32(SAMPLE_INTERVAL_MS)

\* an iteration after the wrap, 999 ms after a tick before the wrap: no tick
C35_WitnessNotEarly ==
  /\ Called("notick") /\ lastSample.hi = WORD - 1 /\ now.hi = 0
  /\ sincePrevTick = U32(SAMPLE_INTERVAL_MS - 1)


\* C36: in every state the stored percent lies in [0, 100] and OCR4A is
\* floor(percent / 100 * 999 + 0.5); the same held where each step started;
\* only a handled PUMP line changes either, and OCR4A never changes while
\* the percent stays
C36_PumpInSync ==
  /\ g_pump_cmd_pct >= 0 /\ g_pump_cmd_pct <= PUMP_CMD_MAX_PCT
  /\ OCR4A = dutyOf(g_pump_cmd_pct)
  /\ ev.pre.ocr = dutyOf(ev.pre.pct)
  /\ (g_pump_cmd_pct # ev.pre.pct \/ OCR4A # ev.pre.ocr) =>
        (Handled /\ startsWith(HandledText, S_PUMP))
  /\ g_pump_cmd_pct = ev.pre.pct => OCR4A = ev.pre.ocr

\* PUMP 12.5% handled while the command stood at 50 %: 125 where 500 was
C36_Witness ==
  /\ Handled /\ ev.pre.pct = 50000 /\ ev.pre.ocr = 500
  /\ g_pump_cmd_pct = 12500 /\ OCR4A = 125

\* PUMP 150 is clamped: 100 % and the full period
C36_WitnessClamped ==
  /\ Handled /\ isPumpCommand(HandledText) /\ ~pumpInHz(HandledText)
  /\ pumpValue(HandledText) > PUMP_CMD_MAX_PCT
  /\ g_pump_cmd_pct = PUMP_CMD_MAX_PCT /\ OCR4A = PWM_TOP


\* a line-end byte is the next one the parser reads
AtLineEnd == pc = "serial" /\ rx # <<>> /\ Head(rx) \in {"\n", "\r"}

\* C37: after every step the line buffer holds at most LINE_CAP characters;
\* a command is handled only by the step that reads a line-end with a
\* non-empty buffer, it gets that buffer and leaves the buffer empty; a
\* line-end read with an empty buffer, the LF behind a CR that closed a
\* command included, keeps the state and prints nothing; a byte that is
\* no line-end never handles anything
C37_Buffering ==
  [][ /\ Len(line') <= LINE_CAP
      /\ Handled' => /\ AtLineEnd /\ Len(line) > 0
                     /\ ev'.line = line /\ line' = <<>>
      /\ AtLineEnd => /\ rx' = Tail(rx) /\ line' = <<>>
                      /\ Handled' <=> Len(line) > 0
      /\ (AtLineEnd /\ Len(line) = 0) => (StateKept' /\ tx' = <<>>)
      /\ (Handled /\ AtLineEnd) => (~Handled' /\ StateKept' /\ tx' = <<>>)
      /\ (pc = "serial" /\ rx # <<>> /\ ~AtLineEnd) =>
            (~Handled' /\ StateKept' /\ tx' = <<>>) ]_vars

\* a command closed by CR has been executed and its LF is the next byte
C37_Witness ==
  /\ Handled /\ ~StateKept /\ line = <<>>
  /\ rx = <<"\n">> /\ pc = "serial"

\* an empty line has been read: nothing executed
C37_WitnessEmpty == ev.op = "eol" /\ StateKept /\ tx = <<>> /\ rx = <<>>

\* the buffer is full
C37_WitnessFull == Len(line) = LINE_CAP /\ ev.op = "byte"


\* C38: in every telemetry frame poll_ms is not later than the frame's own
\* timestamp t, also when the poll and the tick run in the same iteration
C38_PollNotAfterFrame ==
  Ticked => \/ tx[1].t.hi > tx[1].poll_ms.hi
            \/ tx[1].t.hi = tx[1].poll_ms.hi /\ tx[1].t.lo >= tx[1].poll_ms.lo


----------------------------------------------------------------------------
(* C33, C39, C40: the web client *)

\* the sensors of a snapshot that are ticked and hold a number
SelectedValid(w) ==
  {i \in 1..w.latestSnapshot.sensorCount :
     w.sensorSelections[i] /\ ~w.latestSnapshot.temps[i].null}

RECURSIVE TempSum(_, _)
TempSum(temps, S) ==
  IF S = {} THEN 0
  ELSE LET i == CHOOSE j \in S : TRUE IN temps[i].v + TempSum(temps, S \ {i})

\* the valve commands the automatic logic sent in the last step
AutoSent(w) == {i \in 1..Len(w.out) : w.out[i].by = "auto"}

\* C33: after every step the snapshot's average is the mean of exactly the
\* sensors that are ticked and valid in the latest frame (none: no average);
\* a frame makes the snapshot hold its temps; the automatic logic sends a
\* command only while handling a frame with at least one such sensor, and
\* the command is VALVE OPEN exactly when that mean is above the set-point
C33_SelectedMean ==
  [][ LET w == web'
          S == SelectedValid(w)
          avg == w.latestSnapshot.avgSelected
      IN  /\ ~w.latestSnapshot.null =>
                /\ w.latestSnapshot.selectedValid = Cardinality(S)
                /\ avg.null <=> S = {}
                /\ S # {} => /\ avg.n = Cardinality(S)
                             /\ avg.sum = TempSum(w.latestSnapshot.temps, S)
          /\ w.op = "message" =>
                /\ ~w.latestSnapshot.null
                /\ w.latestSnapshot.temps = Head(web.frames).temps
          /\ AutoSent(w) # {} =>
                /\ w.op = "message" /\ S # {} /\ Len(w.out) = 1
                /\ w.out[1].cmd = S_VALVE_OPEN <=>
                     TempSum(w.latestSnapshot.temps, S) > currentSetpoint * Cardinality(S)
                /\ w.out[1].cmd \in {S_VALVE_OPEN, S_VALVE_CLOSE} ]_vars

\* channel 1 reads 20.0 and is unticked, channel 2 reads 30.0 and is ticked:
\* the average is 30.0 and the client has sent VALVE OPEN
C33_Witness ==
  /\ web.op = "message" /\ ~web.sensorSelections[1] /\ web.sensorSelections[2]
  /\ ~web.latestSnapshot.temps[1].null /\ web.latestSnapshot.temps[1].v = 200
  /\ web.latestSnapshot.avgSelected = [null |-> FALSE, sum |-> 300, n |-> 1]
  /\ web.out = <<[cmd |-> S_VALVE_OPEN, by |-> "auto"]>>

\* the only valid channel is unticked: no average, nothing sent, with the
\* automatic logic active
C33_WitnessNone ==
  /\ web.op = "message" /\ web.clientAutoActive /\ ~web.sensorSelections[1]
  /\ ~web.latestSnapshot.temps[1].null /\ web.latestSnapshot.temps[1].v = 300
  /\ web.latestSnapshot.selectedValid = 0 /\ web.latestSnapshot.avgSelected.null
  /\ web.out = <<>>


\* C39: from a click on VALVE OPEN or VALVE CLOSE until the next click on
\* VALVE AUTO the automatic logic sends no valve command, whatever frames
\* come in, frames that still report mode A included
C39_ManualRespected == web.manual => AutoSent(web) = {}


\* the delay stays within [1000, 30000] ms; a lost or failed connection sets
\* one timer of the delay that stood, and the delay doubles up to 30000; the
\* reconnect comes when that time has passed, not before; an open resets the
\* delay to 1000
BackOffKept ==
  /\ web.reconnectDelay >= RECONNECT_FIRST_MS
  /\ web.reconnectDelay <= RECONNECT_CAP_MS
  /\ Len(web.timers) <= 1
  /\ web.timers # <<>> <=> (web.ws = "null" /\ web.loaded)
  /\ web.timers # <<>> => web.timers[1] + web.waited = web.scheduled
  /\ web.op = "close" =>
       /\ web.timers = <<web.scheduled>>
       /\ web.reconnectDelay =
            IF 2 * web.scheduled > RECONNECT_CAP_MS THEN RECONNECT_CAP_MS
            ELSE 2 * web.scheduled
  /\ web.op = "reconnect" => (web.waited = web.scheduled /\ web.ws = "connecting")
  /\ web.op = "open" => web.reconnectDelay = RECONNECT_FIRST_MS

\* C40: the reconnect delay is always within [1000, 30000] ms, each loss
\* schedules one reconnect after the current delay and doubles the delay up
\* to the cap, an open resets it to 1000 ms; and whenever the server is
\* reachable the connection opens in the end, unless the server goes away
\* again first
C40_BackOff ==
  /\ []BackOffKept
  /\ web.reachable ~> (web.ws = "open" \/ ~web.reachable)

\* the fifth loss in a row set a timer of 16000 ms and left the delay at the
\* cap of 30000, not at 32000
C40_Witness ==
  /\ web.op = "close" /\ web.scheduled = 16000
  /\ web.reconnectDelay = RECONNECT_CAP_MS

\* a reconnect after the full 30000 ms
C40_WitnessCap ==
  web.op = "reconnect" /\ web.waited = RECONNECT_CAP_MS

\* an open after failures resets the delay
C40_WitnessReset ==
  web.op = "open" /\ web.scheduled = RECONNECT_CAP_MS
  /\ web.reconnectDelay = RECONNECT_FIRST_MS

============================================================================
